---- MODULE Spec2Model ----
(***************************************************************************)
(* Snapgen generation orchestration engine: dependency graph, topological  *)
(* order and levels (engine/topo-sort.ts, engine/parallel.ts), foreign-key *)
(* resolution and transactional persistence (engine/transformer.ts), and   *)
(* the driving loop of the CLI generate command (cli/commands/generate.ts).*)
(*                                                                         *)
(* Table names are the integers 1..n in input order (the code compares     *)
(* names only for equality, and breaks ties by input position).  The name  *)
(* UnknownTable stands for a related table that is not among the input     *)
(* tables (for instance one removed by --tables filtering).                *)
(***************************************************************************)
EXTENDS Integers, Sequences, FiniteSets, TLC

\* ---- bounds of the model ----
MaxTables == 3
MaxFks == 2
MaxRows == 2      \* rows handed to transformForeignKeys
MaxIds == 2       \* identifiers recorded per table
MaxFkFields == 1  \* foreign-key fields of the table handed to transformForeignKeys
MaxPlainFields == 1  \* other fields of the rows handed to transformForeignKeys
MaxKey == 2         \* distinct unique-key values of the rows handed to insertData
MaxInsertRows == 3  \* rows handed to one insertData call
MaxBatchSize == 2   \* batchSize argument of insertData
MaxCalls == 2       \* insertData calls on the same row set
MaxRunTables == 3   \* tables of a whole run
MaxRunFks == 1      \* foreign-key fields per table in a whole run
RunCount == 1       \* rows requested per table in a whole run (config count)

DefaultBatchSize == 500   \* config.defaults?.batchSize || 500
DefaultMaxRetries == 3    \* config.ai?.maxRetries || 3
DefaultParallel == 3      \* config.defaults?.parallel || 3
MaxGenBatches == 4   \* batches of one table in generateWithOpenAI
MinFields == 1       \* the smallest field count of a generated table
MaxApiTables == 2    \* tables handed to generate() of index.ts
MaxLevelTables == 2  \* tables of the level handed to generateLevelBatch
MaxIdBatches == 2    \* generateBatch results of a table handed to the identifier extraction
MaxBatchRows == 2    \* rows of one such result
MaxIdValue == 1      \* distinct values of a field of a generated row

UnknownTable == 0

VARIABLES
  tables,     \* tablesToGenerate: sequence of [name, fields]; fields = related table of each FK field
  stage,      \* position of the driver / of the function under study
  graph,      \* Map<string, DependencyNode> built by buildDependencyGraph
  order,      \* TopologicalOrder.order
  cycles,     \* TopologicalOrder.cycles
  levels,     \* result of groupTablesByLevel
  tableSchema,      \* transformForeignKeys: the table definition (related table of each FK field)
  rows,             \* transformForeignKeys: the input rows (one value per FK field)
  idMappings,       \* Record<string, any[]>: table name -> identifier list
  transformedRows,  \* transformForeignKeys: the returned rows
  errors,           \* validateReferentialIntegrity: the returned list
  tableName,    \* insertData: the tableName argument
  insertRows,   \* insertData: the rows argument (each row is its unique-key value)
  batchSize,    \* insertData: the batchSize argument
  batches,      \* insertData: the rows split into batches
  batchIdx,     \* insertData: position of the for loop over batches
  result,       \* insertData: the InsertResult being built
  callPc,       \* insertData: position of the call
  statements,   \* statements the current call has sent on its client, with their outcome
  calls,        \* outcomes of the finished insertData calls, oldest first
  store,        \* destination store: table name -> committed rows (unique keys)
  txRows,       \* rows inserted by the open transaction, not yet committed
  txState,      \* state of the client's transaction: "none", "active", "aborted"
  client,       \* the current call's use of the pool: connections checked out and released
  mode,           \* options: "persist", "dryRun" (--dry-run) or "output" (--output)
  provider,       \* config.ai.provider
  connection,     \* outcome of testConnection: "untested", "ok", "failed"
  levelIdx,       \* generateCommand: position of the level loop
  gen,            \* per table: state of its generation in generateLevelBatch
  requested,      \* tables for which a generation request has been sent to the AI service
  results,        \* generateLevelBatch: table name -> GenerationResult of the current level
  generatedData,  \* generateCommand: table name -> resolved rows
  orderIdx,       \* generateCommand: position of the insert loop over order
  contexts,      \* generateLevelBatch: per table of the level its count and field count
  batchRows,     \* the rows of each generateBatch result of the table (rows: field name -> value)
  count,         \* generateDataForTable: context.count
  fieldCount,    \* generateDataForTable: context.tableSchema.fields.length
  genBatchSize,  \* generateWithOpenAI: batchSize = getOptimalBatchSize(context)
  maxParallel,   \* generateWithOpenAI: maxParallel
  batchCounts,   \* generateWithOpenAI: batches, the row count of each batch
  groupStart,    \* generateWithOpenAI: position i of the loop over batch groups
  batchCalls,    \* per batch of the group: state of its generateBatch calls
  allRows,       \* generateWithOpenAI: allRows (number of rows)
  allIds,        \* generateWithOpenAI: allIds (number of identifiers)
  genPc,         \* generateDataForTable: position of the call
  genResult,     \* generateDataForTable: the returned GenerationResult (row and id counts)
  orphaned       \* tables with generateBatch calls still running after their generateWithOpenAI
                 \* has rejected (Promise.all rejects on the first rejection)

topoVars == <<tables, graph, order, cycles, levels>>
fkVars == <<tableSchema, rows, idMappings, transformedRows, errors>>
insertVars == <<tableName, insertRows, batchSize, batches, batchIdx, result, callPc, statements, calls,
                store, txRows, txState, client>>
runVars == <<mode, provider, connection, levelIdx, gen, requested, results, generatedData, orderIdx>>
aiVars == <<contexts, batchRows, count, fieldCount, genBatchSize, maxParallel, batchCounts, groupStart, batchCalls, allRows, allIds,
            genPc, genResult, orphaned>>
vars == <<stage, topoVars, fkVars, insertVars, runVars, aiVars>>

\* ---- helpers on sequences ----
Range(s) == {s[i] : i \in DOMAIN s}

Includes(s, x) == \E i \in DOMAIN s : s[i] = x

IndexOf(s, x) == IF Includes(s, x) THEN CHOOSE i \in DOMAIN s : s[i] = x /\ \A j \in 1..(i-1) : s[j] # x ELSE 0

FkSeqs(n, maxFk) == UNION {[1..k -> 0..n] : k \in 0..maxFk}

\* the table definitions with field lists f, named by input position
MkTables(f) == [i \in DOMAIN f |-> [name |-> i, fields |-> f[i]]]

TableNames(ts) == {ts[i].name : i \in DOMAIN ts}

\* ---- engine/topo-sort.ts: buildDependencyGraph ----
\* one iteration of the inner forEach: field of table t with relation.relatedTable = r
\* the edge is recorded without looking for an earlier one
AddEdge_AppendsAlways(g, t, r) ==
  IF r = t THEN g
  ELSE LET g1 == [g EXCEPT ![t].dependencies = Append(@, r)]
       IN IF r \in DOMAIN g1
          THEN [g1 EXCEPT ![r].dependents = Append(@, t)]
          ELSE g1

AddEdge(g, t, r) ==
  IF r = t THEN g
  ELSE LET g1 == [g EXCEPT ![t].dependencies = IF Includes(@, r) THEN @ ELSE Append(@, r)]
       IN IF r \in DOMAIN g1
          THEN [g1 EXCEPT ![r].dependents = IF Includes(@, t) THEN @ ELSE Append(@, t)]
          ELSE g1

RECURSIVE AddFields(_, _, _, _)
AddFields(g, t, fs, i) ==
  IF i > Len(fs) THEN g ELSE AddFields(AddEdge(g, t, fs[i]), t, fs, i + 1)

RECURSIVE AddTables(_, _, _)
AddTables(g, ts, i) ==
  IF i > Len(ts) THEN g ELSE AddTables(AddFields(g, ts[i].name, ts[i].fields, 1), ts, i + 1)

buildDependencyGraph(ts) ==
  AddTables([t \in TableNames(ts) |-> [table |-> t, dependencies |-> <<>>, dependents |-> <<>>]], ts, 1)

\* the keys of the graph Map in insertion order
GraphKeys(ts) == [i \in DOMAIN ts |-> ts[i].name]

\* ---- engine/topo-sort.ts: detectCycle ----
Dependencies(g, node) == IF node \in DOMAIN g THEN g[node].dependencies ELSE <<>>

RECURSIVE dfs(_, _, _)
RECURSIVE DfsDeps(_, _, _, _)
\* st = [visited, recStack, cycle, found]; dfs returns the state after the call
dfs(g, node, st) ==
  DfsDeps(g, node, 1, [st EXCEPT !.visited = @ \cup {node}, !.recStack = @ \cup {node}])

DfsDeps(g, node, i, st) ==
  LET deps == Dependencies(g, node) IN
  IF i > Len(deps) THEN [st EXCEPT !.recStack = @ \ {node}, !.found = FALSE]
  ELSE LET dep == deps[i] IN
       IF dep \notin st.visited
       THEN LET r == dfs(g, dep, st) IN
            IF r.found THEN [r EXCEPT !.cycle = <<node>> \o @]
            ELSE DfsDeps(g, node, i + 1, r)
       ELSE IF dep \in st.recStack
            THEN [st EXCEPT !.cycle = <<node>> \o Append(@, dep), !.found = TRUE]
            ELSE DfsDeps(g, node, i + 1, st)

RECURSIVE DetectFrom(_, _, _, _)
DetectFrom(g, startNodes, i, st) ==
  IF i > Len(startNodes) THEN st
  ELSE IF startNodes[i] \notin st.visited
       THEN LET r == dfs(g, startNodes[i], st) IN
            IF r.found THEN r ELSE DetectFrom(g, startNodes, i + 1, r)
       ELSE DetectFrom(g, startNodes, i + 1, st)

\* reports the first start node alone
detectCycle_StartNodeOnly(g, startNodes) == <<startNodes[1]>>

detectCycle(g, startNodes) ==
  DetectFrom(g, startNodes, 1, [visited |-> {}, recStack |-> {}, cycle |-> <<>>, found |-> FALSE]).cycle

\* ---- engine/topo-sort.ts: topologicalSort ----

\* dependents.forEach: decrement in-degree, enqueue when it reaches zero
RECURSIVE ReduceDependents(_, _, _, _)
ReduceDependents(deps, i, inDegree, queue) ==
  IF i > Len(deps) THEN [inDegree |-> inDegree, queue |-> queue]
  ELSE LET d == deps[i]
           newDegree == inDegree[d] - 1
       IN ReduceDependents(deps, i + 1, [inDegree EXCEPT ![d] = newDegree],
                           IF newDegree = 0 THEN Append(queue, d) ELSE queue)

\* the newest entry of the queue is taken
Shift_TakesLast(queue) == [current |-> queue[Len(queue)], rest |-> SubSeq(queue, 1, Len(queue) - 1)]

\* queue.shift(): the oldest entry and the rest of the queue
Shift(queue) == [current |-> Head(queue), rest |-> Tail(queue)]

RECURSIVE ProcessQueue(_, _, _, _)
ProcessQueue(g, ord, queue, inDegree) ==
  IF Len(queue) = 0 THEN [order |-> ord, inDegree |-> inDegree]
  ELSE LET current == Shift(queue).current
           r == ReduceDependents(g[current].dependents, 1, inDegree, Shift(queue).rest)
       IN ProcessQueue(g, Append(ord, current), r.queue, r.inDegree)

\* Array.prototype.sort with comparator aDeps - bDeps (stable): insertion into a sorted prefix
RECURSIVE InsertSorted(_, _, _)
InsertSorted(g, sorted, x) ==
  IF Len(sorted) = 0 THEN <<x>>
  ELSE LET last == sorted[Len(sorted)] IN
       IF Len(Dependencies(g, last)) <= Len(Dependencies(g, x))
       THEN Append(sorted, x)
       ELSE Append(InsertSorted(g, SubSeq(sorted, 1, Len(sorted) - 1), x), last)

RECURSIVE SortByDeps(_, _, _, _)
SortByDeps(g, s, i, acc) ==
  IF i > Len(s) THEN acc ELSE SortByDeps(g, s, i + 1, InsertSorted(g, acc, s[i]))

Residual_KeepsAboveOne(keys, inDegree) == SelectSeq(keys, LAMBDA t : inDegree[t] > 1)

Residual(keys, inDegree) == SelectSeq(keys, LAMBDA t : inDegree[t] > 0)

\* in-degree taken from the dependents instead of the dependencies
topologicalSort_DegreeFromDependents(g, keys) ==
  LET inDegree0 == [t \in DOMAIN g |-> Len(g[t].dependents)]
      queue0 == SelectSeq(keys, LAMBDA t : inDegree0[t] = 0)
      k == ProcessQueue(g, <<>>, queue0, inDegree0)
      remaining == Residual(keys, k.inDegree)
  IN IF Len(remaining) > 0
     THEN [order |-> k.order \o SortByDeps(g, remaining, 1, <<>>),
           cycles |-> <<detectCycle(g, remaining)>>]
     ELSE [order |-> k.order, cycles |-> <<>>]

topologicalSort(g, keys) ==
  LET inDegree0 == [t \in DOMAIN g |-> Len(g[t].dependencies)]
      queue0 == SelectSeq(keys, LAMBDA t : inDegree0[t] = 0)
      k == ProcessQueue(g, <<>>, queue0, inDegree0)
      remaining == Residual(keys, k.inDegree)
  IN IF Len(remaining) > 0
     THEN [order |-> k.order \o SortByDeps(g, remaining, 1, <<>>),
           cycles |-> <<detectCycle(g, remaining)>>]
     ELSE [order |-> k.order, cycles |-> <<>>]

\* ---- engine/parallel.ts: groupTablesByLevel ----
AllDepsProcessed(g, t, processed) == \A i \in DOMAIN g[t].dependencies : g[t].dependencies[i] \in processed

\* the loop stops and leaves the remaining tables out
CatchAll_LeavesRemaining(keys, lv, processed) == lv

\* currentLevel.length === 0: the remaining tables become one level, break
CatchAll(keys, lv, processed) ==
  LET remaining == SelectSeq(keys, LAMBDA t : t \notin processed)
  IN IF Len(remaining) > 0 THEN Append(lv, remaining) ELSE lv

RECURSIVE LevelLoop(_, _, _, _)
LevelLoop(g, keys, lv, processed) ==
  IF Cardinality(processed) >= Len(keys) THEN lv
  ELSE LET currentLevel == SelectSeq(keys, LAMBDA t : t \notin processed /\ AllDepsProcessed(g, t, processed))
       IN IF Len(currentLevel) = 0
          THEN CatchAll(keys, lv, processed)
          ELSE LevelLoop(g, keys, Append(lv, currentLevel), processed \cup Range(currentLevel))

groupTablesByLevel(ts) == LevelLoop(buildDependencyGraph(ts), GraphKeys(ts), <<>>, {})

\* ---- graph vocabulary used by the properties ----
Names == TableNames(tables)

\* A depends on B: A has a non-self foreign key to B
DependsOn(a, b) == a \in DOMAIN graph /\ Includes(graph[a].dependencies, b)

DirectDeps(S) == {d \in 0..Len(tables) : \E t \in S : DependsOn(t, d)}

RECURSIVE Closure(_)
Closure(S) == LET S2 == S \cup DirectDeps(S) IN IF S2 = S THEN S ELSE Closure(S2)

\* the tables reached from t along one or more dependency edges
ReachFrom(t) == Closure(DirectDeps({t}))

OnCycle(t) == t \in ReachFrom(t)

\* t cannot be ordered: it lies on a cycle, or is not an input table, or reaches such a table
Blocked(t) == \E x \in ReachFrom(t) \cup {t} : x \notin Names \/ OnCycle(x)

InReportedCycle(t) == \E i \in DOMAIN cycles : Includes(cycles[i], t)

LevelOf(t) == IF \E i \in DOMAIN levels : Includes(levels[i], t)
              THEN CHOOSE i \in DOMAIN levels : Includes(levels[i], t) ELSE 0

NoDuplicates(s) == \A i, j \in DOMAIN s : i # j => s[i] # s[j]

\* values of the variables of the components a specification does not exercise
FkIdle == tableSchema = <<>> /\ rows = <<>> /\ idMappings = <<>> /\ transformedRows = <<>> /\ errors = <<>>

\* the call's handle on the pool: nothing checked out yet
NoClient == [checkouts |-> 0, releases |-> 0]

InsertIdle ==
  /\ tableName = 0 /\ insertRows = <<>> /\ batchSize = 0 /\ batches = <<>> /\ batchIdx = 0
  /\ result = <<>> /\ callPc = "idle" /\ statements = <<>> /\ calls = <<>>
  /\ store = <<>> /\ txRows = {} /\ txState = "none" /\ client = NoClient

RunIdle ==
  /\ mode = "dryRun" /\ provider = "openai" /\ connection = "untested" /\ levelIdx = 0
  /\ gen = <<>> /\ requested = {} /\ results = <<>> /\ generatedData = <<>> /\ orderIdx = 0

AiIdle ==
  /\ contexts = <<>> /\ batchRows = <<>> /\ count = 0 /\ fieldCount = 0 /\ genBatchSize = 0 /\ maxParallel = 0 /\ batchCounts = <<>> /\ groupStart = 0
  /\ batchCalls = <<>> /\ allRows = 0 /\ allIds = 0 /\ genPc = "idle" /\ genResult = <<>>
  /\ orphaned = {}

TopoIdle == tables = <<>> /\ graph = <<>> /\ order = <<>> /\ cycles = <<>> /\ levels = <<>>

\* ---- the functions applied to a drawn schema ----
InitTopo ==
  /\ \E n \in 1..MaxTables : \E f \in [1..n -> FkSeqs(n, MaxFks)] : tables = MkTables(f)
  /\ stage = "input"
  /\ graph = <<>>
  /\ order = <<>>
  /\ cycles = <<>>
  /\ levels = <<>>
  /\ FkIdle
  /\ InsertIdle
  /\ RunIdle
  /\ AiIdle

\* cli/commands/generate.ts step 2: buildDependencyGraph + topologicalSort
TopoSort ==
  /\ stage = "input"
  /\ graph' = buildDependencyGraph(tables)
  /\ LET r == topologicalSort(graph', GraphKeys(tables)) IN
       /\ order' = r.order
       /\ cycles' = r.cycles
  /\ stage' = "sorted"
  /\ UNCHANGED <<tables, levels, fkVars, insertVars, runVars>>
  /\ UNCHANGED aiVars

\* cli/commands/generate.ts step 4: groupTablesByLevel
GroupLevels ==
  /\ stage = "sorted"
  /\ mode = "persist" => connection = "ok"
  /\ levels' = groupTablesByLevel(tables)
  /\ stage' = "grouped"
  /\ levelIdx' = 1
  /\ UNCHANGED <<tables, graph, order, cycles, fkVars, insertVars>>
  /\ UNCHANGED <<mode, provider, connection, gen, requested, results, generatedData, orderIdx>>
  /\ UNCHANGED aiVars

NextTopo == TopoSort \/ GroupLevels

SpecTopo == InitTopo /\ [][NextTopo]_vars

\* ---- claims on the order and the levels ----
Sorted == stage # "input"

C3_LevelInvariant ==
  stage = "grouped" => \A t, d \in Names :
    (DependsOn(t, d) /\ ~(InReportedCycle(t) /\ InReportedCycle(d))) => LevelOf(d) < LevelOf(t)

\* C4: order contains every input table exactly once; the levels are pairwise disjoint
\* and together contain every input table exactly once, cyclic graphs included.
C4_TotalCoverage ==
  /\ Sorted => /\ Len(order) = Len(tables)
               /\ Range(order) = Names
  /\ stage = "grouped" =>
       /\ \A i \in DOMAIN levels : NoDuplicates(levels[i])
       /\ \A i, j \in DOMAIN levels : i # j => Range(levels[i]) \cap Range(levels[j]) = {}
       /\ UNION {Range(levels[i]) : i \in DOMAIN levels} = Names

\* a cyclic three-table input that has been sorted and levelled
C4_Witness ==
  /\ stage = "grouped"
  /\ Len(tables) = 3
  /\ \E t \in Names : OnCycle(t)
  /\ \E t \in Names : ~OnCycle(t)
  /\ Len(order) = 3

\* ---- engine/transformer.ts: transformForeignKeys ----
\* Values of a row field (JavaScript any): null, a number, or the text "{{Table_index}}".
Null == [kind |-> "null"]
Num(n) == [kind |-> "num", n |-> n]
Placeholder(t, i) == [kind |-> "text", table |-> t, index |-> i]

FkTables == 1..2
NumValues == {Num(10), Num(20)}
PlaceholderValues == {Placeholder(t, i) : t \in FkTables, i \in 0..(MaxIds + 1)}
\* identifiers are any[] taken from generated rows: numbers, or text produced by the generator
IdValues == NumValues \cup {Placeholder(2, 1)}
FieldValues == {Null, Num(999)} \cup NumValues \cup PlaceholderValues

\* values of a field that is no foreign key: text that looks like a placeholder
PlainValues == {Placeholder(1, 1)}

IdLists == UNION {[1..k -> IdValues] : k \in 0..MaxIds}
IdMappingsSet == UNION {[D -> IdLists] : D \in SUBSET FkTables}

\* value.match(/\{\{(\w+)[_.](\d+)\}\}/)
IsPlaceholder(value) == value.kind = "text"

\* a null value is checked against the identifiers like any other value
TransformField_FillsNull(value, relatedTable, idm, random) ==
  IF relatedTable \in DOMAIN idm /\ Len(idm[relatedTable]) > 0 /\ ~Includes(idm[relatedTable], value)
  THEN idm[relatedTable][(random % Len(idm[relatedTable])) + 1]
  ELSE value

\* one foreign-key field of one row; random is the value of Math.floor(Math.random() * length)
TransformField(value, relatedTable, idm, random) ==
  IF value = Null THEN value
  ELSE LET index == value.index - 1
           substituted ==
             IF IsPlaceholder(value) /\ value.table \in DOMAIN idm
                /\ index + 1 \in DOMAIN idm[value.table]
             THEN idm[value.table][index + 1]
             ELSE value
       IN IF relatedTable \in DOMAIN idm /\ Len(idm[relatedTable]) > 0
             /\ ~Includes(idm[relatedTable], value)
          THEN idm[relatedTable][(random % Len(idm[relatedTable])) + 1]
          ELSE substituted

\* { ...row }, then one assignment per foreign-key field; the columns of a row after those
\* of the foreign-key fields are its other fields
transformForeignKeys(rs, schema, idm, randoms) ==
  [i \in DOMAIN rs |-> [j \in DOMAIN rs[i] |->
     IF j \in DOMAIN schema.fields
     THEN TransformField(rs[i][j], schema.fields[j], idm, randoms[i][j])
     ELSE rs[i][j]]]

InitFk ==
  /\ stage = "fk_input"
  /\ \E nf \in 1..MaxFkFields : \E f \in [1..nf -> FkTables] :
       /\ \E req \in [1..nf -> BOOLEAN] : tableSchema = [name |-> 2, fields |-> f, required |-> req]
       /\ \E nr \in 1..MaxRows : \E np \in 0..MaxPlainFields :
            rows \in [1..nr -> {fk \o plain : fk \in [1..nf -> FieldValues], plain \in [1..np -> PlainValues]}]
  /\ idMappings \in IdMappingsSet
  /\ transformedRows = <<>> /\ errors = <<>>
  /\ TopoIdle
  /\ InsertIdle
  /\ RunIdle
  /\ AiIdle

Transform ==
  /\ stage = "fk_input"
  /\ \E randoms \in [DOMAIN rows -> [DOMAIN tableSchema.fields -> 0..(MaxIds - 1)]] :
       transformedRows' = transformForeignKeys(rows, tableSchema, idMappings, randoms)
  /\ stage' = "fk_done"
  /\ UNCHANGED <<topoVars, tableSchema, rows, idMappings, errors, insertVars, runVars>>
  /\ UNCHANGED aiVars

\* a null value is skipped whether the field is required or not
Finding_SkipsEveryNull(value, required, relatedTable, idm) ==
  IF value = Null THEN "none"
  ELSE IF relatedTable \notin DOMAIN idm \/ Len(idm[relatedTable]) = 0 THEN "noIds"
  ELSE IF ~Includes(idm[relatedTable], value) THEN "notFound"
  ELSE "none"

\* validateReferentialIntegrity, one foreign-key field of one row: nothing, 'no IDs
\* available', or 'not found in ... IDs'
Finding(value, required, relatedTable, idm) ==
  IF value = Null /\ ~required THEN "none"
  ELSE IF relatedTable \notin DOMAIN idm \/ Len(idm[relatedTable]) = 0 THEN "noIds"
  ELSE IF ~Includes(idm[relatedTable], value) THEN "notFound"
  ELSE "none"

\* rows.forEach, fields.forEach: the positions (row, field) in the order they are visited
Visits(rs, schema) ==
  LET nf == Len(schema.fields)
  IN [k \in 1..(Len(rs) * nf) |-> [row |-> ((k - 1) \div nf) + 1, field |-> ((k - 1) % nf) + 1]]

\* errors.push(`Row ${index}: ...`): index is the position of the row counted from 0
validateReferentialIntegrity(rs, schema, idm) ==
  LET found == [k \in DOMAIN Visits(rs, schema) |->
                  LET v == Visits(rs, schema)[k]
                  IN [row |-> v.row - 1, field |-> v.field,
                      kind |-> Finding(rs[v.row][v.field], schema.required[v.field],
                                       schema.fields[v.field], idm)]]
  IN SelectSeq(found, LAMBDA e : e.kind # "none")

Validate ==
  /\ stage = "fk_input"
  /\ errors' = validateReferentialIntegrity(rows, tableSchema, idMappings)
  /\ stage' = "fk_validated"
  /\ UNCHANGED <<topoVars, tableSchema, rows, idMappings, transformedRows, insertVars, runVars>>
  /\ UNCHANGED aiVars

NextFk == Transform \/ Validate

SpecFk == InitFk /\ [][NextFk]_vars

\* C5: a foreign-key value {{T_i}} (i 1-based) with at least i identifiers recorded for T
\* resolves to exactly idMapping[T][i-1].
C5_PlaceholderResolution ==
  stage = "fk_done" => \A i \in DOMAIN rows : \A j \in DOMAIN rows[i] :
    LET value == rows[i][j] IN
    (IsPlaceholder(value) /\ value.table \in DOMAIN idMappings
       /\ value.index \in DOMAIN idMappings[value.table])
      => transformedRows[i][j] = idMappings[value.table][value.index]

\* C6: after resolution every non-null foreign-key value whose related table has a
\* non-empty identifier list is a member of that list.
C6_ReferentialGuarantee ==
  stage = "fk_done" => \A i \in DOMAIN rows : \A j \in DOMAIN rows[i] :
    LET relatedTable == tableSchema.fields[j] IN
    (rows[i][j] # Null /\ relatedTable \in DOMAIN idMappings /\ Len(idMappings[relatedTable]) > 0)
      => Includes(idMappings[relatedTable], transformedRows[i][j])

\* C32: transformForeignKeys leaves every null foreign-key value and every field that is no
\* foreign key as it is, returns as many rows in the same order, and changes neither the
\* rows it was given nor the idMapping
C32_NullAndFrame ==
  /\ [](stage = "fk_done" =>
          /\ Len(transformedRows) = Len(rows)
          /\ \A i \in DOMAIN rows :
               /\ DOMAIN transformedRows[i] = DOMAIN rows[i]
               /\ \A j \in DOMAIN rows[i] :
                    (j \notin DOMAIN tableSchema.fields \/ rows[i][j] = Null)
                      => transformedRows[i][j] = rows[i][j])
  /\ [][stage = "fk_input" => (rows' = rows /\ idMappings' = idMappings /\ tableSchema' = tableSchema)]_vars

\* two rows, the first with a null key and a related table that has identifiers, the second
\* with a key that was replaced; the other field holds text that looks like a placeholder
\* of a table that has identifiers
C32_Witness ==
  /\ stage = "fk_done" /\ Len(rows) = 2
  /\ rows[1][1] = Null /\ tableSchema.fields[1] \in DOMAIN idMappings
  /\ Len(idMappings[tableSchema.fields[1]]) > 0
  /\ transformedRows[2][1] # rows[2][1]
  /\ Len(rows[1]) > Len(tableSchema.fields)
  /\ 1 \in DOMAIN idMappings /\ Len(idMappings[1]) > 0

\* the entries of errors for field j of row i (rows counted from 1)
ErrorsFor(i, j) == {k \in DOMAIN errors : errors[k].row = i - 1 /\ errors[k].field = j}

\* C33: validateReferentialIntegrity always returns and changes neither rows nor idMapping;
\* a null value of a nullable field is skipped; otherwise there is exactly one entry when
\* the related table has no identifiers or the value is not among them, and none when the
\* value is among them
C33_ValidationAdvisory ==
  /\ [](stage = "fk_input" => ENABLED Validate)
  /\ [][stage' = "fk_validated" => (rows' = rows /\ idMappings' = idMappings)]_vars
  /\ [](stage = "fk_validated" =>
          /\ \A k \in DOMAIN errors :
                errors[k].row + 1 \in DOMAIN rows /\ errors[k].field \in DOMAIN tableSchema.fields
          /\ \A i \in DOMAIN rows : \A j \in DOMAIN tableSchema.fields :
               LET value == rows[i][j]
                   relatedTable == tableSchema.fields[j]
                   known == IF relatedTable \in DOMAIN idMappings THEN idMappings[relatedTable] ELSE <<>>
               IN IF value = Null /\ ~tableSchema.required[j] THEN ErrorsFor(i, j) = {}
                  ELSE IF known = <<>> \/ ~Includes(known, value) THEN Cardinality(ErrorsFor(i, j)) = 1
                  ELSE ErrorsFor(i, j) = {})

\* two rows: a null value of a required field is reported, a value among the identifiers
\* is not
C33_Witness ==
  /\ stage = "fk_validated" /\ Len(rows) = 2
  /\ tableSchema.required[1] /\ rows[1][1] = Null
  /\ tableSchema.fields[1] \in DOMAIN idMappings
  /\ Includes(idMappings[tableSchema.fields[1]], rows[2][1])
  /\ Len(errors) = 1 /\ errors[1].row = 0

\* ---- engine/transformer.ts (inserter): insertData, insertBatch ----
Keys == 1..MaxKey

\* for (let i = 0; i < rows.length; i += batchSize) batches.push(rows.slice(i, i + batchSize))
\* the row set sent as one statement, whatever its size
SplitBatches_OneBatch(rs, size, i) == <<rs>>

RECURSIVE SplitBatches(_, _, _)
SplitBatches(rs, size, i) ==
  IF i > Len(rs) THEN <<>>
  ELSE LET last == IF i + size - 1 > Len(rs) THEN Len(rs) ELSE i + size - 1
       IN <<SubSeq(rs, i, last)>> \o SplitBatches(rs, size, i + size)

\* INSERT ... ON CONFLICT DO NOTHING RETURNING *: the rows of the batch that were inserted,
\* in order; a row is skipped when its key is already present (in the store, in the open
\* transaction, or earlier in the same statement)
\* the insert without its conflict clause: every row of the batch comes back
ReturnedRows_NoConflictClause(batch, existing) == batch

RECURSIVE ReturnedRows(_, _)
ReturnedRows(batch, existing) ==
  IF Len(batch) = 0 THEN <<>>
  ELSE IF Head(batch) \in existing THEN ReturnedRows(Tail(batch), existing)
       ELSE <<Head(batch)>> \o ReturnedRows(Tail(batch), existing \cup {Head(batch)})

\* insertBatch, the query succeeded: counts, identifiers and the conflict note
InsertBatchResult_CountsRequested(batch, returned) ==
  [inserted |-> Len(batch),
   failed |-> 0,
   errors |-> <<>>,
   ids |-> returned]

InsertBatchResult(batch, returned) ==
  [inserted |-> Len(returned),
   failed |-> Len(batch) - Len(returned),
   errors |-> IF Len(batch) - Len(returned) > 0 THEN <<"rows skipped due to conflicts">> ELSE <<>>,
   ids |-> returned]

\* the finally block that keeps the client
Release_KeepsClient(c) == c

\* finally { client.release() }
Release(c) == [c EXCEPT !.releases = @ + 1]

EmptyResult == [inserted |-> 0, failed |-> 0, errors |-> <<>>, ids |-> <<>>]

Stmt(name, ok) == [stmt |-> name, ok |-> ok, requested |-> 0, returned |-> 0]
InsertStmt(ok, nRequested, nReturned) ==
  [stmt |-> "INSERT", ok |-> ok, requested |-> nRequested, returned |-> nReturned]

FinishCall(outcome, res, stmts, storeAfter) ==
  calls' = Append(calls, [tableName |-> tableName, outcome |-> outcome, result |-> res,
                          statements |-> stmts, storeBefore |-> store[tableName],
                          storeAfter |-> storeAfter])

InitInsert ==
  /\ stage = "insert"
  /\ tableName = 1
  /\ \E n \in 0..MaxInsertRows : insertRows \in [1..n -> Keys]
  /\ batchSize \in 1..MaxBatchSize
  /\ \E held \in SUBSET Keys : store = [t \in {1} |-> held]
  /\ batches = <<>> /\ batchIdx = 0 /\ result = <<>> /\ callPc = "idle"
  /\ statements = <<>> /\ calls = <<>> /\ txRows = {} /\ txState = "none" /\ client = NoClient
  /\ TopoIdle
  /\ FkIdle
  /\ RunIdle
  /\ AiIdle

\* insertData(t, rs, url, size) up to pool.connect(): an empty row set returns at once
InsertDataEntry(t, rs, size) ==
  /\ tableName' = t
  /\ insertRows' = rs
  /\ batchSize' = size
  /\ result' = EmptyResult
  /\ statements' = <<>>
  /\ IF Len(rs) = 0
     THEN /\ callPc' = "returned"
          /\ calls' = Append(calls, [tableName |-> t, outcome |-> "returned", result |-> EmptyResult,
                                     statements |-> <<>>, storeBefore |-> store[t],
                                     storeAfter |-> store[t]])
          /\ UNCHANGED <<batches, batchIdx>>
     ELSE /\ batches' = SplitBatches(rs, size, 1)
          /\ batchIdx' = 1
          /\ callPc' = "connect"
          /\ UNCHANGED calls
  /\ client' = NoClient
  /\ UNCHANGED <<store, txRows, txState>>

\* a caller runs insertData on the row set, again once the previous call is over
CallInsertData ==
  /\ stage = "insert"
  /\ callPc \in {"idle", "returned", "thrown"}
  /\ Len(calls) < MaxCalls
  /\ InsertDataEntry(tableName, insertRows, batchSize)
  /\ UNCHANGED <<stage, topoVars, fkVars, runVars>>
  /\ UNCHANGED aiVars

\* const client = await pool.connect()
Connect ==
  /\ callPc = "connect"
  /\ callPc' = "begin"
  /\ UNCHANGED <<stage, topoVars, fkVars, runVars, tableName, insertRows, batchSize, batches, batchIdx, result,
                 statements, calls, store, txRows, txState>>
  /\ client' = [client EXCEPT !.checkouts = @ + 1]
  /\ UNCHANGED aiVars

\* pool.connect() rejects: outside the try, the error leaves insertData
ConnectFails ==
  /\ callPc = "connect"
  /\ callPc' = "thrown"
  /\ statements' = Append(statements, Stmt("CONNECT", FALSE))
  /\ FinishCall("thrown", result, Append(statements, Stmt("CONNECT", FALSE)), store[tableName])
  /\ UNCHANGED <<stage, topoVars, fkVars, runVars, tableName, insertRows, batchSize, batches, batchIdx, result,
                 store, txRows, txState>>
  /\ UNCHANGED client
  /\ UNCHANGED aiVars

\* await client.query('BEGIN')
Begin ==
  /\ callPc = "begin"
  /\ statements' = Append(statements, Stmt("BEGIN", TRUE))
  /\ txState' = "active"
  /\ txRows' = {}
  /\ callPc' = "batch"
  /\ UNCHANGED <<stage, topoVars, fkVars, runVars, tableName, insertRows, batchSize, batches, batchIdx, result,
                 calls, store>>
  /\ UNCHANGED client
  /\ UNCHANGED aiVars

BeginFails ==
  /\ callPc = "begin"
  /\ statements' = Append(statements, Stmt("BEGIN", FALSE))
  /\ callPc' = "rollback"
  /\ UNCHANGED <<stage, topoVars, fkVars, runVars, tableName, insertRows, batchSize, batches, batchIdx, result,
                 calls, store, txRows, txState>>
  /\ UNCHANGED client
  /\ UNCHANGED aiVars

\* loop body, insertBatch resolves: the conflict-tolerant insert returns the inserted rows
InsertBatchOk ==
  /\ callPc = "batch"
  /\ batchIdx <= Len(batches)
  /\ txState = "active"
  /\ LET batch == batches[batchIdx]
         returned == ReturnedRows(batch, store[tableName] \cup txRows)
         batchResult == InsertBatchResult(batch, returned)
     IN /\ result' = [inserted |-> result.inserted + batchResult.inserted,
                      failed |-> result.failed + batchResult.failed,
                      errors |-> result.errors \o batchResult.errors,
                      ids |-> result.ids \o batchResult.ids]
        /\ txRows' = txRows \cup Range(returned)
        /\ statements' = Append(statements, InsertStmt(TRUE, Len(batch), Len(returned)))
  /\ batchIdx' = batchIdx + 1
  /\ UNCHANGED <<stage, topoVars, fkVars, runVars, tableName, insertRows, batchSize, batches, callPc, calls,
                 store, txState>>
  /\ UNCHANGED client
  /\ UNCHANGED aiVars

\* loop body, the query raises: insertBatch rethrows, the catch inside the loop of
\* insertData records the batch as failed and the loop goes on.  The store aborts the
\* transaction: every later statement but COMMIT/ROLLBACK raises as well.
InsertBatchThrows ==
  /\ callPc = "batch"
  /\ batchIdx <= Len(batches)
  /\ LET batch == batches[batchIdx]
     IN /\ result' = [result EXCEPT !.failed = @ + Len(batch),
                                    !.errors = Append(@, "Batch failed")]
        /\ statements' = Append(statements, InsertStmt(FALSE, Len(batch), 0))
  /\ txState' = "aborted"
  /\ batchIdx' = batchIdx + 1
  /\ UNCHANGED <<stage, topoVars, fkVars, runVars, tableName, insertRows, batchSize, batches, callPc, calls,
                 store, txRows>>
  /\ UNCHANGED client
  /\ UNCHANGED aiVars

\* await client.query('COMMIT'), finally release, return result
Commit ==
  /\ callPc = "batch"
  /\ batchIdx > Len(batches)
  /\ statements' = Append(statements, Stmt("COMMIT", TRUE))
  /\ store' = IF txState = "active" THEN [store EXCEPT ![tableName] = @ \cup txRows] ELSE store
  /\ txRows' = {}
  /\ txState' = "none"
  /\ callPc' = "returned"
  /\ UNCHANGED result
  /\ FinishCall("returned", result, Append(statements, Stmt("COMMIT", TRUE)),
                IF txState = "active" THEN store[tableName] \cup txRows ELSE store[tableName])
  /\ UNCHANGED <<stage, topoVars, fkVars, runVars, tableName, insertRows, batchSize, batches, batchIdx>>
  /\ client' = Release(client)
  /\ UNCHANGED aiVars

CommitFails ==
  /\ callPc = "batch"
  /\ batchIdx > Len(batches)
  /\ statements' = Append(statements, Stmt("COMMIT", FALSE))
  /\ callPc' = "rollback"
  /\ UNCHANGED <<stage, topoVars, fkVars, runVars, tableName, insertRows, batchSize, batches, batchIdx, result,
                 calls, store, txRows, txState>>
  /\ UNCHANGED client
  /\ UNCHANGED aiVars

\* catch of the outer try: ROLLBACK, rethrow, finally release
Rollback ==
  /\ callPc = "rollback"
  /\ statements' = Append(statements, Stmt("ROLLBACK", TRUE))
  /\ txRows' = {}
  /\ txState' = "none"
  /\ callPc' = "thrown"
  /\ UNCHANGED result
  /\ FinishCall("thrown", result, Append(statements, Stmt("ROLLBACK", TRUE)), store[tableName])
  /\ UNCHANGED <<stage, topoVars, fkVars, runVars, tableName, insertRows, batchSize, batches, batchIdx, store>>
  /\ client' = Release(client)
  /\ UNCHANGED aiVars

\* the catch of the outer try: ROLLBACK itself rejects (the connection is lost), the error
\* of ROLLBACK leaves insertData, finally release.  The server has dropped the transaction.
RollbackFails ==
  /\ callPc = "rollback"
  /\ statements' = Append(statements, Stmt("ROLLBACK", FALSE))
  /\ txRows' = {}
  /\ txState' = "none"
  /\ callPc' = "thrown"
  /\ UNCHANGED result
  /\ FinishCall("thrown", result, Append(statements, Stmt("ROLLBACK", FALSE)), store[tableName])
  /\ UNCHANGED <<stage, topoVars, fkVars, runVars, tableName, insertRows, batchSize, batches, batchIdx, store>>
  /\ client' = Release(client)
  /\ UNCHANGED aiVars

NextInsert ==
  \/ CallInsertData \/ Connect \/ ConnectFails \/ Begin \/ BeginFails
  \/ InsertBatchOk \/ InsertBatchThrows \/ Commit \/ CommitFails \/ Rollback \/ RollbackFails

SpecInsert == InitInsert /\ [][NextInsert]_vars

\* ---- claims on insertData ----
FaultFree(stmts) == \A i \in DOMAIN stmts : stmts[i].ok

RECURSIVE SumReturned(_)
SumReturned(stmts) ==
  IF Len(stmts) = 0 THEN 0 ELSE Head(stmts).returned + SumReturned(Tail(stmts))

RECURSIVE SumSkipped(_)
SumSkipped(stmts) ==
  IF Len(stmts) = 0 THEN 0
  ELSE (Head(stmts).requested - Head(stmts).returned) + SumSkipped(Tail(stmts))

ConflictBatches(stmts) ==
  Cardinality({i \in DOMAIN stmts : stmts[i].stmt = "INSERT" /\ stmts[i].ok
                                      /\ stmts[i].returned < stmts[i].requested})

ConflictNotes(errs) ==
  Cardinality({i \in DOMAIN errs : errs[i] = "rows skipped due to conflicts"})

LastStmt(stmts) == stmts[Len(stmts)].stmt

\* C7: when the insert of a batch raises, the transaction of the call ends with ROLLBACK
\* (never COMMIT), no later batch is inserted, and the exception leaves insertData.
C7_RollbackOnBatchError ==
  \A i \in DOMAIN statements :
    (statements[i].stmt = "INSERT" /\ ~statements[i].ok) =>
      /\ \A j \in DOMAIN statements : j > i => statements[j].stmt = "ROLLBACK"
      /\ callPc # "returned"

\* C8: per batch failed = requested - returned, so a returned call has
\* inserted + failed = number of input rows; a batch with skipped rows adds exactly one
\* note; conflicts alone raise nothing and the transaction commits the inserted rows.
C8_ConflictAccounting ==
  \A c \in DOMAIN calls :
    LET call == calls[c] IN
    /\ call.outcome = "returned" =>
         /\ call.result.inserted = SumReturned(call.statements)
         /\ call.result.failed = SumSkipped(call.statements)
         /\ call.result.inserted + call.result.failed = Len(insertRows)
         /\ ConflictNotes(call.result.errors) = ConflictBatches(call.statements)
    /\ (FaultFree(call.statements) /\ Len(insertRows) > 0) =>
         /\ call.outcome = "returned"
         /\ LastStmt(call.statements) = "COMMIT"
         /\ Len(call.result.errors) = ConflictBatches(call.statements)
         /\ call.storeAfter = call.storeBefore \cup Range(call.result.ids)
         /\ Cardinality(call.storeAfter \ call.storeBefore) = call.result.inserted

\* a committed call in which some rows were inserted and others skipped by a conflict
C8_Witness ==
  \E c \in DOMAIN calls :
    /\ calls[c].outcome = "returned"
    /\ FaultFree(calls[c].statements)
    /\ calls[c].result.inserted > 0
    /\ calls[c].result.failed > 0
    /\ Len(calls[c].result.errors) = 1
    /\ LastStmt(calls[c].statements) = "COMMIT"

\* C9: two calls with the same row set, no statement of either raising: the second call
\* returns inserted = 0 and failed = the full row count without an exception, and the
\* store holds exactly the rows the first call reported as inserted beyond what it held.
C9_Idempotence ==
  (Len(calls) = 2 /\ FaultFree(calls[1].statements) /\ FaultFree(calls[2].statements)) =>
    /\ calls[2].outcome = "returned"
    /\ calls[2].result.inserted = 0
    /\ calls[2].result.failed = Len(insertRows)
    /\ Cardinality(store[tableName]) - Cardinality(calls[1].storeBefore) = calls[1].result.inserted

\* both calls done on a row set of which the first call inserted some rows
C9_Witness ==
  /\ Len(calls) = 2
  /\ FaultFree(calls[1].statements) /\ FaultFree(calls[2].statements)
  /\ calls[1].result.inserted > 0
  /\ Len(calls[2].statements) >= 3
  /\ calls[2].result.failed = Len(insertRows)

\* ---- cli/commands/generate.ts: generateCommand, with generators/ai generateLevelBatch ----
Put(f, k, v) == [x \in DOMAIN f \cup {k} |-> IF x = k THEN v ELSE f[x]]

NoResult == [rows |-> <<>>, ids |-> <<>>, source |-> "none"]

TableOf(t) == tables[t]

\* generateLevelWithOpenAI: await Promise.all(promises)
LevelResolved_AnySettled(level) == \E i \in DOMAIN level : gen[level[i]].state = "done"

LevelResolved(level) == \A i \in DOMAIN level : gen[level[i]].state = "done"

\* values the parsed response may hold in a foreign-key field related to table r; the code
\* accepts any value: a placeholder text, a number of the model's own, or null
AiFkValues(r) == {Placeholder(r, 1), Num(999), Null}

\* generateFieldValue: faker.helpers.arrayElement(existingIds[relatedTable]) when there are
\* identifiers, a value generated from the field's type otherwise
FakerFkValues(r) ==
  IF r \in DOMAIN idMappings /\ Len(idMappings[r]) > 0 THEN Range(idMappings[r]) ELSE {Num(999)}

RowsOf(t, values(_)) ==
  LET fields == TableOf(t).fields
  IN {v \in [DOMAIN fields -> UNION {values(fields[j]) : j \in DOMAIN fields}] :
        \A j \in DOMAIN fields : v[j] \in values(fields[j])}

\* extractIds on rows whose identifier field holds 1..n
SequentialIds(n) == [i \in 1..n |-> Num(i)]

\* generateBatch resolves: 1..count rows
AiResults(t) ==
  {[rows |-> rs, ids |-> SequentialIds(Len(rs)), source |-> "ai"] :
     rs \in UNION {[1..n -> RowsOf(t, AiFkValues)] : n \in 1..RunCount}}

\* generateWithFaker(context): count rows, identifiers index + 1
FakerResults(t) ==
  {[rows |-> rs, ids |-> SequentialIds(RunCount), source |-> "faker"] :
     rs \in [1..RunCount -> RowsOf(t, FakerFkValues)]}

InitRun ==
  /\ \E n \in 1..MaxRunTables : \E f \in [1..n -> FkSeqs(n, MaxRunFks)] : tables = MkTables(f)
  /\ stage = "input"
  /\ graph = <<>> /\ order = <<>> /\ cycles = <<>> /\ levels = <<>>
  /\ mode \in {"persist", "dryRun", "output"}
  /\ provider \in {"openai", "faker"}
  /\ connection = "untested"
  /\ levelIdx = 0
  /\ gen = [t \in TableNames(tables) |-> [state |-> "idle", attempt |-> 0]]
  /\ requested = {}
  /\ results = [t \in TableNames(tables) |-> NoResult]
  /\ generatedData = <<>>
  /\ orderIdx = 0
  /\ tableSchema = <<>> /\ rows = <<>> /\ transformedRows = <<>> /\ errors = <<>>
  /\ idMappings = <<>>
  /\ tableName = 0 /\ insertRows = <<>> /\ batchSize = 0 /\ batches = <<>> /\ batchIdx = 0
  /\ result = <<>> /\ callPc = "idle" /\ statements = <<>> /\ calls = <<>>
  /\ store = [t \in TableNames(tables) |-> {}] /\ txRows = {} /\ txState = "none" /\ client = NoClient
  /\ AiIdle

\* step 3: testConnection resolves
TestConnectionOk ==
  /\ stage = "sorted"
  /\ mode = "persist"
  /\ connection = "untested"
  /\ connection' = "ok"
  /\ UNCHANGED <<stage, topoVars, fkVars, insertVars>>
  /\ UNCHANGED <<mode, provider, levelIdx, gen, requested, results, generatedData, orderIdx>>
  /\ UNCHANGED aiVars

\* step 3: testConnection rejects: process.exit(1)
TestConnectionFails ==
  /\ stage = "sorted"
  /\ mode = "persist"
  /\ connection = "untested"
  /\ connection' = "failed"
  /\ stage' = "exited"
  /\ UNCHANGED <<topoVars, fkVars, insertVars>>
  /\ UNCHANGED <<mode, provider, levelIdx, gen, requested, results, generatedData, orderIdx>>
  /\ UNCHANGED aiVars

\* level loop: contexts built, generateLevelBatch called.  With provider 'openai' every table
\* of the level gets its generateBatch request at once (generateLevelWithOpenAI); otherwise
\* the throw is caught and the tables go one by one through generateWithOpenAI.
StartLevel ==
  /\ stage = "grouped"
  /\ levelIdx <= Len(levels)
  /\ LET level == levels[levelIdx]
         started == IF provider = "openai" THEN Range(level) ELSE {level[1]}
     IN /\ gen' = [t \in DOMAIN gen |->
                     IF t \in started THEN [state |-> "pending", attempt |-> 1]
                     ELSE IF t \in Range(level) THEN [state |-> "idle", attempt |-> 0]
                     ELSE gen[t]]
        /\ requested' = requested \cup started
  /\ UNCHANGED results
  /\ stage' = "generating"
  /\ UNCHANGED <<topoVars, fkVars, insertVars>>
  /\ UNCHANGED <<mode, provider, connection, levelIdx, generatedData, orderIdx>>
  /\ UNCHANGED aiVars

\* in the one-by-one path the loop goes on to the next table once table t has its result
NextInSequence(t, g) ==
  LET level == levels[levelIdx]
      i == IndexOf(level, t)
  IN IF provider # "openai" /\ i < Len(level)
     THEN [g EXCEPT ![level[i + 1]] = [state |-> "pending", attempt |-> 1]]
     ELSE g

RequestedAfter(t) ==
  LET level == levels[levelIdx]
      i == IndexOf(level, t)
  IN IF provider # "openai" /\ i < Len(level) THEN requested \cup {level[i + 1]} ELSE requested

\* generateBatch: the request of table t is answered with rows
RequestSucceeds(t) ==
  /\ stage = "generating"
  /\ gen[t].state = "pending"
  /\ \E r \in AiResults(t) : results' = [results EXCEPT ![t] = r]
  /\ gen' = NextInSequence(t, [gen EXCEPT ![t] = [state |-> "done", attempt |-> 0]])
  /\ requested' = RequestedAfter(t)
  /\ UNCHANGED <<stage, topoVars, fkVars, insertVars>>
  /\ UNCHANGED <<mode, provider, connection, levelIdx, generatedData, orderIdx>>
  /\ UNCHANGED aiVars

\* generateBatch: the request fails (error, no content, not an array, zero rows) and
\* attempts remain: the request is sent again
RequestRetried(t) ==
  /\ stage = "generating"
  /\ gen[t].state = "pending"
  /\ gen[t].attempt < DefaultMaxRetries
  /\ gen' = [gen EXCEPT ![t].attempt = @ + 1]
  /\ UNCHANGED <<stage, topoVars, fkVars, insertVars>>
  /\ UNCHANGED <<mode, provider, connection, levelIdx, requested, results, generatedData, orderIdx>>
  /\ UNCHANGED aiVars

\* generateBatch throws after its last attempt: the table is generated by generateWithFaker
\* the fallback of one table discards what the other tables of the level have
FallbackResult_DiscardsOthers(t, r) == [u \in DOMAIN results |-> IF u = t THEN r ELSE NoResult]

\* catch of one table's promise: fakerResult becomes that table's result
FallbackResult(t, r) == [results EXCEPT ![t] = r]

RequestExhausted(t) ==
  /\ stage = "generating"
  /\ gen[t].state = "pending"
  /\ gen[t].attempt = DefaultMaxRetries
  /\ \E r \in FakerResults(t) : results' = FallbackResult(t, r)
  /\ gen' = NextInSequence(t, [gen EXCEPT ![t] = [state |-> "done", attempt |-> 0]])
  /\ requested' = RequestedAfter(t)
  /\ UNCHANGED <<stage, topoVars, fkVars, insertVars>>
  /\ UNCHANGED <<mode, provider, connection, levelIdx, generatedData, orderIdx>>
  /\ UNCHANGED aiVars

\* "Process results for each table": transformForeignKeys, generatedData, idMappings
RECURSIVE ProcessResults(_, _, _, _, _)
ProcessResults(level, i, data, idm, randoms) ==
  IF i > Len(level) THEN [generatedData |-> data, idMappings |-> idm]
  ELSE LET t == level[i]
           res == results[t]
       IN IF res.source = "none"
          THEN ProcessResults(level, i + 1, data, idm, randoms)
          ELSE ProcessResults(level, i + 1,
                 Put(data, t, transformForeignKeys(res.rows, TableOf(t), idm, randoms[t])),
                 Put(idm, t, res.ids), randoms)

\* generateLevelBatch has returned: the results of the level are processed, next iteration
ProcessLevel ==
  /\ stage = "generating"
  /\ LevelResolved(levels[levelIdx])
  /\ \E randoms \in [Range(levels[levelIdx]) -> [1..RunCount -> [1..MaxRunFks -> 0..(RunCount - 1)]]] :
       LET r == ProcessResults(levels[levelIdx], 1, generatedData, idMappings, randoms)
       IN /\ generatedData' = r.generatedData
          /\ idMappings' = r.idMappings
  /\ results' = [t \in DOMAIN results |-> NoResult]
  /\ levelIdx' = levelIdx + 1
  /\ stage' = "grouped"
  /\ UNCHANGED <<topoVars, tableSchema, rows, transformedRows, errors, insertVars>>
  /\ UNCHANGED <<mode, provider, connection, gen, requested, orderIdx>>
  /\ UNCHANGED aiVars

\* an error leaves the try of the level loop (generateWithFaker throws for table t, in the
\* fallback of generateLevelWithOpenAI and again in the one-by-one path of generateLevelBatch):
\* the catch logs "Level generation failed, aborting..." and calls process.exit(1)
LevelFails(t) ==
  /\ stage = "generating"
  /\ gen[t].state = "pending"
  /\ gen[t].attempt = DefaultMaxRetries
  /\ stage' = "exited"
  /\ UNCHANGED <<topoVars, fkVars, insertVars, runVars>>
  /\ UNCHANGED aiVars

\* a step 5 that starts once the first level is done
LevelLoopOver_AfterFirstLevel == levelIdx > 1

\* for (let levelIdx = 0; levelIdx < levels.length; levelIdx++): the loop is over
LevelLoopOver == levelIdx > Len(levels)

\* step 5 without persistence: seed file written (--output) or summary logged (--dry-run)
FinishWithoutInsert ==
  /\ stage = "grouped"
  /\ LevelLoopOver
  /\ mode # "persist"
  /\ stage' = "done"
  /\ UNCHANGED <<topoVars, fkVars, insertVars, runVars>>
  /\ UNCHANGED aiVars

\* step 5: "Insert into database"
StartInsertLoop ==
  /\ stage = "grouped"
  /\ LevelLoopOver
  /\ mode = "persist"
  /\ stage' = "inserting"
  /\ orderIdx' = 1
  /\ UNCHANGED <<topoVars, fkVars, insertVars>>
  /\ UNCHANGED <<mode, provider, connection, levelIdx, gen, requested, results, generatedData>>
  /\ UNCHANGED aiVars

\* the rows of a table as handed to the store, each identified by its unique key
RowKeys(t) == [i \in DOMAIN generatedData[t] |-> i]

\* insert loop body: insertData(tableName, generatedData[tableName], url, batchSize)
InsertTable ==
  /\ stage = "inserting"
  /\ orderIdx <= Len(order)
  /\ callPc \in {"idle", "returned"}
  /\ IF order[orderIdx] \in DOMAIN generatedData
     THEN InsertDataEntry(order[orderIdx], RowKeys(order[orderIdx]), DefaultBatchSize)
     ELSE UNCHANGED insertVars   \* if (!generatedData[tableName]) continue
  /\ orderIdx' = orderIdx + 1
  /\ UNCHANGED <<stage, topoVars, fkVars>>
  /\ UNCHANGED <<mode, provider, connection, levelIdx, gen, requested, results, generatedData>>
  /\ UNCHANGED aiVars

\* insert loop over: "Inserted n total rows"
FinishInsertLoop ==
  /\ stage = "inserting"
  /\ orderIdx > Len(order)
  /\ callPc \in {"idle", "returned"}
  /\ stage' = "done"
  /\ UNCHANGED <<topoVars, fkVars, insertVars, runVars>>
  /\ UNCHANGED aiVars

\* insertData threw: the catch of the command logs "Fatal error" and exits
FatalError ==
  /\ stage = "inserting"
  /\ callPc = "thrown"
  /\ stage' = "exited"
  /\ UNCHANGED <<topoVars, fkVars, insertVars, runVars>>
  /\ UNCHANGED aiVars

InsertDataSteps ==
  \/ Connect \/ ConnectFails \/ Begin \/ BeginFails
  \/ InsertBatchOk \/ InsertBatchThrows \/ Commit \/ CommitFails \/ Rollback

Next ==
  \/ TopoSort \/ TestConnectionOk \/ TestConnectionFails \/ GroupLevels
  \/ StartLevel
  \/ \E t \in DOMAIN gen : RequestSucceeds(t) \/ RequestRetried(t) \/ RequestExhausted(t)
  \/ \E t \in DOMAIN gen : LevelFails(t)
  \/ ProcessLevel
  \/ FinishWithoutInsert \/ StartInsertLoop \/ InsertTable \/ FinishInsertLoop \/ FatalError
  \/ InsertDataSteps

Spec == InitRun /\ [][Next]_vars

\* ---- claims on the run ----

\* the persist call c went through to a successful COMMIT (or had nothing to insert)
Committed(c) ==
  /\ c.outcome = "returned"
  /\ Len(c.statements) > 0 => (LastStmt(c.statements) = "COMMIT" /\ c.statements[Len(c.statements)].ok)

\* the persist call for table t has begun: it is the call in progress or a finished one
PersistBegun(t) ==
  \/ callPc \notin {"idle"} /\ tableName = t
  \/ \E i \in DOMAIN calls : calls[i].tableName = t

PersistCommitted(t) == \E i \in DOMAIN calls : calls[i].tableName = t /\ Committed(calls[i])

\* C1: in a persisting run, for every non-self foreign-key dependency of table T on table P
\* (both input tables, neither on a dependency cycle), the persist call for P has committed
\* before the persist call for T begins, and P precedes T in the order of topologicalSort.
C1_DependencyPersistedFirst ==
  mode = "persist" =>
    \A t, p \in Names :
      (DependsOn(t, p) /\ ~OnCycle(t) /\ ~OnCycle(p)) =>
        /\ Sorted => IndexOf(order, p) < IndexOf(order, t)
        /\ PersistBegun(t) => PersistCommitted(p)

\* C10: level barrier: a generation request for a table of a level is issued only when every
\* table of every earlier level has finished generation (primary or fallback), has its
\* resolved rows in generatedData and its identifier list recorded in idMappings.
C10_LevelBarrier ==
  \A t \in requested : \A u \in Names :
    (LevelOf(u) > 0 /\ LevelOf(u) < LevelOf(t)) =>
      /\ gen[u].state = "done"
      /\ u \in DOMAIN generatedData
      /\ u \in DOMAIN idMappings
      /\ Len(idMappings[u]) = Len(generatedData[u])

\* a request is out for a table of the second level after a first level of two tables, one
\* of which fell back to faker
C10_Witness ==
  /\ Len(levels) >= 2
  /\ Len(levels[1]) >= 2
  /\ \E t \in requested : LevelOf(t) = 2 /\ gen[t].state = "pending"
  /\ \E u \in Range(levels[1]) : u \in DOMAIN idMappings /\ gen[u].state = "done"

\* ---- claims on cycle reporting ----

\* the input is two tables that reference each other
MutualPair == Len(tables) = 2 /\ DependsOn(1, 2) /\ DependsOn(2, 1)

\* C14: for tables A (FK to B) and B (FK to A), topologicalSort returns a non-empty cycles
\* list whose reported sequence runs over exactly A and B along dependency edges and closes
\* on its first table, and order contains exactly A and B, each once.
C14_CycleReported ==
  (Sorted /\ MutualPair) =>
    /\ Len(cycles) > 0
    /\ Range(cycles[1]) = {1, 2}
    /\ cycles[1][1] = cycles[1][Len(cycles[1])]
    /\ \A i \in 1..(Len(cycles[1]) - 1) : DependsOn(cycles[1][i], cycles[1][i + 1])
    /\ Range(order) = {1, 2}
    /\ Len(order) = 2

C14_Witness == Sorted /\ MutualPair /\ cycles = <<(<<1, 2, 1>>)>> /\ order = <<1, 2>>

\* ---- claims on generateLevelBatch ----

CurrentLevel == levels[levelIdx]

\* C13: level-batch isolation: while a level is generated, a table's result once set (primary
\* or fallback) is not changed by what happens to the other tables, a fallback sets the
\* result of its own table only, and when generateLevelBatch returns the map has an entry
\* for every table of the level.
C13_LevelBatchIsolation ==
  [][stage = "generating" =>
       /\ stage' = "generating" =>
            \A t \in Names : results[t].source # "none" => results'[t] = results[t]
       /\ stage' = "grouped" =>
            \A t \in Range(CurrentLevel) : results[t].source # "none"]_vars

\* a level of two tables has resolved with one primary result and one fallback result
C13_Witness ==
  /\ stage = "generating"
  /\ LevelResolved(CurrentLevel)
  /\ \E t, u \in Range(CurrentLevel) : results[t].source = "ai" /\ results[u].source = "faker"

\* C18: when the configured provider is anything other than 'openai', no request is issued
\* to the primary generator and every table is served by the fallback.
C18_FallbackForced ==
  provider # "openai" =>
    \A t \in DOMAIN gen : gen[t].state # "pending" /\ results[t].source # "ai"

\* ---- claims on persistence in the run ----

\* C16: when persistence of a table fails fatally the error reaches the run driver, no later
\* table of the order is persisted, and the run does not end with some tables of the run
\* committed in the store and others not.
C16_FatalErrorPropagation ==
  (stage = "exited" /\ callPc = "thrown") =>
    /\ calls[Len(calls)].outcome = "thrown"
    /\ ~(\E t, u \in DOMAIN generatedData : store[t] # {} /\ store[u] = {})

\* C17: the identifier list recorded in idMappings for a table is the list of identifiers
\* returned by persisting that table's rows (result.ids of insertData).
C17_IdentifierSource ==
  mode = "persist" =>
    \A t \in DOMAIN idMappings :
      \E i \in DOMAIN calls :
        /\ calls[i].tableName = t
        /\ calls[i].outcome = "returned"
        /\ idMappings[t] = [k \in DOMAIN calls[i].result.ids |-> Num(calls[i].result.ids[k])]

\* the foreign-key fields of table t that reference t itself
SelfFields(t) == {j \in DOMAIN TableOf(t).fields : TableOf(t).fields[j] = t}

\* C19: the rows of a table with a foreign key to itself are inserted with that key null
\* (it is filled only after the table's own identifiers exist).
C19_SelfReferenceNullFirst ==
  \A t \in DOMAIN generatedData :
    PersistBegun(t) =>
      \A i \in DOMAIN generatedData[t] : \A j \in SelfFields(t) : generatedData[t][i][j] = Null

\* ---- generators/ai: generateDataForTable, generateWithOpenAI, generateBatch ----

\* field counts of the table: both sides of each threshold of getOptimalBatchSize
FieldCounts == {MinFields, 10, 11, 15, 16}

\* values of config.defaults.parallel; 0 stands for a value that is not set
ParallelSettings == {0, 2}

\* the thresholds compared with >= instead of >
getOptimalBatchSize_InclusiveThresholds(n) ==
  IF n >= 15 THEN 10 ELSE IF n >= 10 THEN 20 ELSE 30

getOptimalBatchSize(n) ==
  IF n > 15 THEN 10 ELSE IF n > 10 THEN 20 ELSE 30

Min(a, b) == IF a < b THEN a ELSE b

\* while (remaining > 0) batches.push(Math.min(remaining, batchSize))
RECURSIVE MakeBatches(_, _)
\* every batch of the full size, the last one too
MakeBatches_FullBatchesOnly(remaining, size) == [i \in 1..((remaining + size - 1) \div size) |-> size]

MakeBatches(remaining, size) ==
  IF remaining <= 0 THEN <<>>
  ELSE <<Min(remaining, size)>> \o MakeBatches(remaining - Min(remaining, size), size)

\* a generateBatch call for n rows, its first request sent
PendingCall(n, call) ==
  [state |-> "pending", size |-> n, call |-> call, attempt |-> 1, rows |-> 0, ids |-> 0, lastError |-> "none"]

\* the group is the whole rest of the batches
GroupOf_WholeRest(bc, i) == {b \in DOMAIN bc : b >= i}

\* batches.slice(i, i + maxParallel), by batch number
GroupOf(bc, i) == {b \in DOMAIN bc : b >= i /\ b < i + maxParallel}

\* number of rows in the parsed response to a request for n rows (not empty)
RawCounts(n) == {1, n, n + 1}

\* what an attempt of a request for n rows gets: an error (of the client, of JSON.parse, no
\* content, not an array), or an array of rows, which may be empty
Responses(n) == {[kind |-> "error", n |-> 0]} \cup [kind : {"rows"}, n : {0} \cup RawCounts(n)]

\* an array is taken whatever its length
Accepted_AllowsEmpty(resp) == resp.kind = "rows"

\* the try block reaches its return: an array, and not rows.length === 0
Accepted(resp) == resp.kind = "rows" /\ resp.n > 0

\* lastError of the attempt: 'Generated 0 rows', or the error thrown before
ErrorOf(resp) == IF resp.kind = "rows" THEN "zeroRows" ELSE "thrown"

\* counts of the table: one row more than a number of full batches, full batches, and the
\* count of the documented example where it fits
Counts(b) ==
  {b * (k - 1) + 1 : k \in 1..MaxGenBatches} \cup {b * k : k \in 1..MaxGenBatches}
    \cup {c \in {105} : c <= b * MaxGenBatches}

\* generateWithFaker(context): count rows; with the rows generated so far taken off
FakerCount_RemainingOnly(n) == [source |-> "faker", rows |-> n - allRows, ids |-> n - allRows]

FakerCount(n) == [source |-> "faker", rows |-> n, ids |-> n]

\* results.forEach: the total of one field over the calls of the batches in S
RECURSIVE SumField(_, _, _)
SumField(cs, S, field) ==
  IF S = {} THEN 0
  ELSE LET x == CHOOSE y \in S : TRUE IN cs[x][field] + SumField(cs, S \ {x}, field)

InitOpenAI ==
  /\ stage = "generate_table"
  /\ provider \in {"openai", "faker"}
  /\ contexts = <<>> /\ batchRows = <<>>
  /\ fieldCount \in FieldCounts
  /\ genBatchSize = 0
  /\ count \in Counts(getOptimalBatchSize(fieldCount))
  /\ \E parallel \in ParallelSettings : maxParallel = IF parallel = 0 THEN DefaultParallel ELSE parallel
  /\ batchCounts = <<>> /\ groupStart = 0 /\ batchCalls = <<>> /\ allRows = 0 /\ allIds = 0
  /\ genPc = "idle" /\ genResult = <<>> /\ orphaned = {}
  /\ mode = "dryRun" /\ connection = "untested" /\ levelIdx = 0
  /\ gen = <<>> /\ requested = {} /\ results = <<>> /\ generatedData = <<>> /\ orderIdx = 0
  /\ TopoIdle
  /\ FkIdle
  /\ InsertIdle

aiInputs == <<stage, topoVars, fkVars, insertVars, runVars, contexts, batchRows, count, fieldCount, maxParallel, orphaned>>

aiFrame == <<aiInputs, genBatchSize>>

\* generateDataForTable: the provider is not 'openai': throw, caught, generateWithFaker
UnsupportedProvider ==
  /\ genPc = "idle"
  /\ provider # "openai"
  /\ genResult' = FakerCount(count)
  /\ genPc' = "returned"
  /\ UNCHANGED <<aiFrame, batchCounts, groupStart, batchCalls, allRows, allIds>>

\* generateWithOpenAI, count <= batchSize: return await generateBatch(context, count, config)
StartSingleShot ==
  /\ genPc = "idle"
  /\ provider = "openai"
  /\ genBatchSize' = getOptimalBatchSize(fieldCount)
  /\ count <= genBatchSize'
  /\ batchCalls' = [b \in {1} |-> PendingCall(count, 1)]
  /\ genPc' = "single"
  /\ UNCHANGED <<aiInputs, batchCounts, groupStart, allRows, allIds, genResult>>

\* generateWithOpenAI, count > batchSize: batches built, the first group started
StartBatched ==
  /\ genPc = "idle"
  /\ provider = "openai"
  /\ genBatchSize' = getOptimalBatchSize(fieldCount)
  /\ count > genBatchSize'
  /\ batchCounts' = MakeBatches(count, genBatchSize')
  /\ groupStart' = 1
  /\ batchCalls' = [b \in GroupOf(batchCounts', 1) |-> PendingCall(batchCounts'[b], 1)]
  /\ genPc' = "batched"
  /\ UNCHANGED <<aiInputs, allRows, allIds, genResult>>

\* generateBatch: the request is answered with a non-empty array; rows.slice(0, count), ids
\* from all rows of the response
AttemptSucceeds(b) ==
  /\ genPc \in {"single", "batched", "returned"}
  /\ batchCalls[b].state = "pending"
  /\ \E resp \in Responses(batchCalls[b].size) :
       /\ Accepted(resp)
       /\ batchCalls' = [batchCalls EXCEPT ![b] = [state |-> "resolved", size |-> @.size, call |-> @.call,
                                                   attempt |-> 0, rows |-> Min(resp.n, @.size), ids |-> resp.n,
                                                   lastError |-> "none"]]
  /\ UNCHANGED <<aiFrame, batchCounts, groupStart, allRows, allIds, genPc, genResult>>

\* generateBatch: the attempt throws inside the try block; the catch keeps the error and the
\* loop goes on, or after the last attempt generateBatch throws lastError
AttemptFails(b) ==
  /\ genPc \in {"single", "batched", "returned"}
  /\ batchCalls[b].state = "pending"
  /\ \E resp \in Responses(batchCalls[b].size) :
       /\ ~Accepted(resp)
       /\ batchCalls' = [batchCalls EXCEPT ![b] =
                          IF batchCalls[b].attempt < DefaultMaxRetries
                          THEN [batchCalls[b] EXCEPT !.attempt = batchCalls[b].attempt + 1, !.lastError = ErrorOf(resp)]
                          ELSE [batchCalls[b] EXCEPT !.state = "thrown", !.lastError = ErrorOf(resp)]]
  /\ UNCHANGED <<aiFrame, batchCounts, groupStart, allRows, allIds, genPc, genResult>>

\* the generateBatch call of c has thrown after its last attempt
CallFailed(c) == c.state = "thrown"

\* every failed call of a batch is followed by another
MayRetry_Always(c) == TRUE

\* the catch around the first call of a batch retries; the catch around the retry rethrows
MayRetry(c) == c.call = 1

\* single shot: generateBatch throws, generateDataForTable catches and returns faker rows
\* the promise of batch b rejects and the promises of the other batches are cancelled
Rejection_CancelsSiblings(cs, b) ==
  [c \in DOMAIN cs |-> IF c = b \/ cs[c].state = "pending" THEN [cs[c] EXCEPT !.state = "rejected"] ELSE cs[c]]

\* the promise of batch b rejects; Promise.all rejects and leaves the other promises alone
Rejection(cs, b) == [cs EXCEPT ![b].state = "rejected"]

SingleShotFails ==
  /\ genPc = "single"
  /\ CallFailed(batchCalls[1])
  /\ batchCalls' = [batchCalls EXCEPT ![1].state = "rejected"]
  /\ genResult' = FakerCount(count)
  /\ genPc' = "returned"
  /\ UNCHANGED <<aiFrame, batchCounts, groupStart, allRows, allIds>>

\* batched: "retrying once...": after 2000 ms generateBatch is called again for the batch
BatchRetried(b) ==
  /\ genPc \in {"batched", "returned"}
  /\ CallFailed(batchCalls[b])
  /\ MayRetry(batchCalls[b])
  /\ batchCalls' = [batchCalls EXCEPT ![b] = PendingCall(@.size, @.call + 1)]
  /\ UNCHANGED <<aiFrame, batchCounts, groupStart, allRows, allIds, genPc, genResult>>

\* batched: the retry throws too: throw retryError, Promise.all rejects, generateWithOpenAI
\* rejects, generateDataForTable catches and returns faker rows
BatchRetryFails(b) ==
  /\ genPc = "batched"
  /\ CallFailed(batchCalls[b])
  /\ ~MayRetry(batchCalls[b])
  /\ batchCalls' = Rejection(batchCalls, b)
  /\ genResult' = FakerCount(count)
  /\ genPc' = "returned"
  /\ UNCHANGED <<aiFrame, batchCounts, groupStart, allRows, allIds>>

\* single shot: the result of generateBatch is the result of the table
\* batched, after Promise.all has rejected: the retry of another batch throws too; the
\* rejection goes to the settled Promise.all and is dropped
SiblingRetryFails(b) ==
  /\ genPc = "returned"
  /\ CallFailed(batchCalls[b])
  /\ ~MayRetry(batchCalls[b])
  /\ batchCalls' = [batchCalls EXCEPT ![b].state = "rejected"]
  /\ UNCHANGED <<aiFrame, batchCounts, groupStart, allRows, allIds, genPc, genResult>>

SingleShotResolved ==
  /\ genPc = "single"
  /\ batchCalls[1].state = "resolved"
  /\ genResult' = [source |-> "ai", rows |-> batchCalls[1].rows, ids |-> batchCalls[1].ids]
  /\ genPc' = "returned"
  /\ UNCHANGED <<aiFrame, batchCounts, groupStart, batchCalls, allRows, allIds>>

\* batched: Promise.all of the group resolves: results pushed, next group or return
GroupResolved ==
  /\ genPc = "batched"
  /\ \A b \in DOMAIN batchCalls : batchCalls[b].state = "resolved"
  /\ LET rowsNow == allRows + SumField(batchCalls, DOMAIN batchCalls, "rows")
         idsNow == allIds + SumField(batchCalls, DOMAIN batchCalls, "ids")
         next == groupStart + maxParallel
     IN /\ allRows' = rowsNow
        /\ allIds' = idsNow
        /\ IF next > Len(batchCounts)
           THEN /\ genResult' = [source |-> "ai", rows |-> rowsNow, ids |-> idsNow]
                /\ genPc' = "returned"
                /\ UNCHANGED <<groupStart, batchCalls>>
           ELSE /\ groupStart' = next
                /\ batchCalls' = [b \in GroupOf(batchCounts, next) |-> PendingCall(batchCounts[b], 1)]
                /\ UNCHANGED <<genPc, genResult>>
  /\ UNCHANGED <<aiFrame, batchCounts>>

NextOpenAI ==
  \/ UnsupportedProvider \/ StartSingleShot \/ StartBatched
  \/ \E b \in DOMAIN batchCalls : AttemptSucceeds(b) \/ AttemptFails(b) \/ BatchRetried(b) \/ BatchRetryFails(b)
  \/ \E b \in DOMAIN batchCalls : SiblingRetryFails(b)
  \/ SingleShotFails \/ SingleShotResolved \/ GroupResolved

SpecOpenAI == InitOpenAI /\ [][NextOpenAI]_vars

\* a table of the smallest field count, its count a multiple of the batch size
InitSiblings == InitOpenAI /\ fieldCount = MinFields /\ count % getOptimalBatchSize(fieldCount) = 0

\* the event loop runs every promise that can go on, and every request comes to an end
SpecOpenAIFair == InitSiblings /\ [][NextOpenAI]_vars /\ WF_vars(NextOpenAI)

\* ---- generators/ai: generateLevelBatch, generateLevelWithOpenAI, by row counts ----

\* the contexts of a table: field counts of FieldCounts, counts up to one row above the
\* batch size of the table
LevelContexts ==
  UNION {{[count |-> c, fieldCount |-> f] : c \in {1, getOptimalBatchSize(f), getOptimalBatchSize(f) + 1}} :
           f \in FieldCounts}

\* generateBatch(ctx, ctx.count, config): the call of a table, its first request sent
LevelCall(ctx) == [state |-> "pending", attempt |-> 1, size |-> ctx.count]

InitLevel ==
  /\ stage = "level_batch"
  /\ provider = "openai"
  /\ \E n \in 1..MaxLevelTables : contexts \in [1..n -> LevelContexts]
  /\ batchRows = <<>>
  /\ gen = [t \in DOMAIN contexts |-> [state |-> "idle", attempt |-> 0, size |-> 0]]
  /\ results = <<>>
  /\ count = 0 /\ fieldCount = 0 /\ genBatchSize = 0 /\ maxParallel = 0 /\ batchCounts = <<>>
  /\ groupStart = 0 /\ batchCalls = <<>> /\ allRows = 0 /\ allIds = 0 /\ genPc = "idle"
  /\ genResult = <<>> /\ orphaned = {}
  /\ mode = "dryRun" /\ connection = "untested" /\ levelIdx = 0
  /\ requested = {} /\ generatedData = <<>> /\ orderIdx = 0
  /\ TopoIdle
  /\ FkIdle
  /\ InsertIdle

levelFrame == <<topoVars, fkVars, insertVars, mode, provider, connection, levelIdx, requested,
                generatedData, orderIdx, contexts, batchRows, count, fieldCount, genBatchSize, maxParallel,
                batchCounts, groupStart, batchCalls, allRows, allIds, genPc, genResult, orphaned>>

\* generateLevelWithOpenAI: contexts.map(async ...) starts the call of every table
LevelDispatch ==
  /\ stage = "level_batch"
  /\ gen' = [t \in DOMAIN contexts |-> LevelCall(contexts[t])]
  /\ stage' = "level_pending"
  /\ UNCHANGED <<levelFrame, results>>

\* generateBatch returns for table t: rows.slice(0, count), ids of all rows of the response
LevelAttemptSucceeds(t) ==
  /\ stage = "level_pending"
  /\ gen[t].state = "pending"
  /\ \E resp \in Responses(gen[t].size) :
       /\ Accepted(resp)
       /\ results' = Put(results, t, [source |-> "ai", rows |-> Min(resp.n, gen[t].size), ids |-> resp.n])
  /\ gen' = [gen EXCEPT ![t] = [state |-> "done", attempt |-> 0, size |-> gen[t].size]]
  /\ UNCHANGED <<levelFrame, stage>>

\* an attempt of the call of table t throws: the next attempt, or generateBatch throws and
\* the catch of the table returns generateWithFaker(ctx)
LevelAttemptFails(t) ==
  /\ stage = "level_pending"
  /\ gen[t].state = "pending"
  /\ \E resp \in Responses(gen[t].size) : ~Accepted(resp)
  /\ IF gen[t].attempt < DefaultMaxRetries
     THEN /\ gen' = [gen EXCEPT ![t].attempt = @ + 1]
          /\ UNCHANGED results
     ELSE /\ gen' = [gen EXCEPT ![t] = [state |-> "done", attempt |-> 0, size |-> gen[t].size]]
          /\ results' = Put(results, t, FakerCount(contexts[t].count))
  /\ UNCHANGED <<levelFrame, stage>>

\* Promise.all resolves: finalResults is returned
LevelReturns ==
  /\ stage = "level_pending"
  /\ \A t \in DOMAIN gen : gen[t].state = "done"
  /\ stage' = "level_done"
  /\ UNCHANGED <<levelFrame, gen, results>>

NextLevel ==
  \/ LevelDispatch
  \/ \E t \in DOMAIN gen : LevelAttemptSucceeds(t) \/ LevelAttemptFails(t)
  \/ LevelReturns

SpecLevel == InitLevel /\ [][NextLevel]_vars

\* ---- generators/ai and engine/parallel.ts: extractIds ----

\* a property that a row does not have
Undefined == 0

\* field names: "id" and one other
FieldNames == {"id", "key"}

\* values of a field of a row, apart from the row numbers
FieldValuesOfRow == {10 + v : v \in 1..MaxIdValue}

\* the table definitions: the fields of the table and, in order, those with isId
IdSchemas ==
  {[fields |-> {"id", "key"}, idFields |-> <<>>], [fields |-> {"key"}, idFields |-> <<>>],
   [fields |-> {"id", "key"}, idFields |-> <<"id">>], [fields |-> {"id", "key"}, idFields |-> <<"key">>],
   [fields |-> {"id", "key"}, idFields |-> <<"id", "key">>]}

\* rows of a response of the AI service: any field may be missing
AiRows == [FieldNames -> {Undefined} \cup FieldValuesOfRow]

\* compositeId[f.name] = r[f.name] for every identifier field
CompositeId(r, idf) == [f \in Range(idf) |-> r[f]]

\* extractIds of generators/ai
extractIds(rs, schema) ==
  LET idf == schema.idFields
  IN IF Len(idf) = 0
     THEN IF rs # <<>> /\ rs[1]["id"] # Undefined
          THEN [i \in DOMAIN rs |-> rs[i]["id"]]
          ELSE [i \in DOMAIN rs |-> i]
     ELSE IF Len(idf) = 1
          THEN SelectSeq([i \in DOMAIN rs |-> rs[i][idf[1]]], LAMBDA v : v # Undefined)
          ELSE [i \in DOMAIN rs |-> CompositeId(rs[i], idf)]

\* extractIds of engine/parallel.ts (the Faker generator)
extractIdsFaker(rs, schema) ==
  LET idf == schema.idFields
  IN IF Len(idf) = 0
     THEN SelectSeq([i \in DOMAIN rs |-> rs[i]["id"]], LAMBDA v : v # Undefined)
     ELSE IF Len(idf) = 1
          THEN [i \in DOMAIN rs |-> rs[i][idf[1]]]
          ELSE [i \in DOMAIN rs |-> CompositeId(rs[i], idf)]

\* generateFieldValue: an identifier field gets index + 1, another field some value
FakerRow(schema, i, v) ==
  [f \in FieldNames |-> IF f \notin schema.fields THEN Undefined
                         ELSE IF f \in Range(schema.idFields) THEN i ELSE v]

\* allRows.push(...result.rows), allIds.push(...result.ids) over the batches
RECURSIVE Flatten(_)
Flatten(ss) == IF ss = <<>> THEN <<>> ELSE Head(ss) \o Flatten(Tail(ss))

InitIds ==
  /\ stage = "extract_ids"
  /\ provider \in {"openai", "faker"}
  /\ tableSchema \in IdSchemas
  /\ IF provider = "openai"
     THEN \E nb \in 1..MaxIdBatches : \E n \in 1..MaxBatchRows : batchRows \in [1..nb -> [1..n -> AiRows]]
     ELSE \E n \in 1..MaxBatchRows : \E v \in FieldValuesOfRow :
            batchRows = <<[i \in 1..n |-> FakerRow(tableSchema, i, v)]>>
  /\ genPc = "idle" /\ genResult = <<>>
  /\ contexts = <<>> /\ count = 0 /\ fieldCount = 0 /\ genBatchSize = 0 /\ maxParallel = 0
  /\ batchCounts = <<>> /\ groupStart = 0 /\ batchCalls = <<>> /\ allRows = 0 /\ allIds = 0
  /\ orphaned = {}
  /\ mode = "dryRun" /\ connection = "untested" /\ levelIdx = 0
  /\ gen = <<>> /\ requested = {} /\ results = <<>> /\ generatedData = <<>> /\ orderIdx = 0
  /\ rows = <<>> /\ idMappings = <<>> /\ transformedRows = <<>> /\ errors = <<>>
  /\ TopoIdle
  /\ InsertIdle

idsFrame == <<stage, topoVars, fkVars, insertVars, runVars, contexts, batchRows, count, fieldCount,
              genBatchSize, maxParallel, batchCounts, groupStart, batchCalls, allRows, allIds, orphaned>>

\* generateBatch for one batch, or generateWithOpenAI over the batches: each result carries
\* extractIds(rows, tableSchema) of its own rows
ReturnAiResult ==
  /\ stage = "extract_ids" /\ genPc = "idle"
  /\ provider = "openai"
  /\ genResult' = [source |-> "ai", rows |-> Flatten(batchRows),
                    ids |-> Flatten([b \in DOMAIN batchRows |-> extractIds(batchRows[b], tableSchema)])]
  /\ genPc' = "returned"
  /\ UNCHANGED idsFrame

\* generateWithFaker: rows, extractIds(rows, tableSchema)
ReturnFakerResult ==
  /\ stage = "extract_ids" /\ genPc = "idle"
  /\ provider = "faker"
  /\ genResult' = [source |-> "faker", rows |-> batchRows[1], ids |-> extractIdsFaker(batchRows[1], tableSchema)]
  /\ genPc' = "returned"
  /\ UNCHANGED idsFrame

NextIds == ReturnAiResult \/ ReturnFakerResult

SpecIds == InitIds /\ [][NextIds]_vars

\* ---- claims on generateDataForTable ----

\* the primary generation of the table has raised: unsupported provider, or a generateBatch
\* call whose error left generateWithOpenAI
\* ---- index.ts: generate (the programmatic entry point) ----

InitGenerate ==
  /\ \E n \in 1..MaxApiTables : \E f \in [1..n -> FkSeqs(n, MaxRunFks)] : tables = MkTables(f)
  /\ stage = "api_input"
  /\ graph = <<>> /\ order = <<>> /\ cycles = <<>> /\ levels = <<>>
  /\ mode \in {"persist", "dryRun"}
  /\ provider \in {"openai", "faker"}
  /\ connection = "untested"
  /\ levelIdx = 0 /\ gen = <<>> /\ requested = {} /\ results = <<>>
  /\ generatedData = <<>>
  /\ idMappings = <<>>
  /\ orderIdx = 0
  /\ contexts = <<>> /\ batchRows = <<>>
  /\ fieldCount = MaxRunFks
  /\ genBatchSize = 0
  /\ count \in {RunCount, getOptimalBatchSize(fieldCount) + 1}
  /\ maxParallel = DefaultParallel
  /\ batchCounts = <<>> /\ groupStart = 0 /\ batchCalls = <<>> /\ allRows = 0 /\ allIds = 0
  /\ genPc = "waiting" /\ genResult = <<>> /\ orphaned = {}
  /\ tableSchema = <<>> /\ rows = <<>> /\ transformedRows = <<>> /\ errors = <<>>
  /\ tableName = 0 /\ insertRows = <<>> /\ batchSize = 0 /\ batches = <<>> /\ batchIdx = 0
  /\ result = <<>> /\ callPc = "idle" /\ statements = <<>> /\ calls = <<>>
  /\ store = [t \in TableNames(tables) |-> {}] /\ txRows = {} /\ txState = "none" /\ client = NoClient

\* buildDependencyGraph, topologicalSort (cycles are not looked at)
ApiSort ==
  /\ stage = "api_input"
  /\ graph' = buildDependencyGraph(tables)
  /\ order' = topologicalSort(buildDependencyGraph(tables), GraphKeys(tables)).order
  /\ stage' = "api_generating"
  /\ orderIdx' = 1
  /\ UNCHANGED <<tables, cycles, levels, fkVars, insertVars, aiVars>>
  /\ UNCHANGED <<mode, provider, connection, levelIdx, gen, requested, results, generatedData>>

\* for (const tableName of order): await generateDataForTable(context, config)
ApiCallGenerate ==
  /\ stage = "api_generating"
  /\ orderIdx <= Len(order)
  /\ genPc = "waiting"
  /\ genPc' = "idle"
  /\ UNCHANGED <<stage, topoVars, fkVars, insertVars, runVars>>
  /\ UNCHANGED <<contexts, batchRows, count, fieldCount, genBatchSize, maxParallel, batchCounts, groupStart, batchCalls, allRows, allIds,
                 genResult, orphaned>>

\* the rows of a result of n rows, all rows with the foreign-key values v
UniformRows(n, v) == [i \in 1..n |-> v]

\* generateDataForTable has returned: transformForeignKeys, generatedData, idMappings; the
\* generateBatch calls that are still running stay behind
ApiRecord ==
  /\ stage = "api_generating"
  /\ genPc = "returned"
  /\ LET t == order[orderIdx]
         values == IF genResult.source = "ai" THEN RowsOf(t, AiFkValues) ELSE RowsOf(t, FakerFkValues)
     IN /\ \E v \in values : \E r \in 0..1 :
             generatedData' = Put(generatedData, t,
               transformForeignKeys(UniformRows(genResult.rows, v), TableOf(t), idMappings,
                                    [i \in 1..genResult.rows |-> [j \in DOMAIN TableOf(t).fields |-> r]]))
        /\ idMappings' = Put(idMappings, t, SequentialIds(genResult.ids))
        /\ orphaned' = IF \E b \in DOMAIN batchCalls : batchCalls[b].state \in {"pending", "thrown"}
                       THEN orphaned \cup {t} ELSE orphaned
  /\ orderIdx' = orderIdx + 1
  /\ genPc' = "waiting"
  /\ batchCounts' = <<>> /\ groupStart' = 0 /\ batchCalls' = <<>> /\ allRows' = 0 /\ allIds' = 0
  /\ genResult' = <<>>
  /\ UNCHANGED <<stage, topoVars, tableSchema, rows, transformedRows, errors, insertVars>>
  /\ UNCHANGED <<mode, provider, connection, levelIdx, gen, requested, results>>
  /\ genBatchSize' = 0
  /\ UNCHANGED <<contexts, batchRows, count, fieldCount, maxParallel>>

\* the generateBatch calls left behind by table t come to their end
OrphanSettles(t) ==
  /\ t \in orphaned
  /\ orphaned' = orphaned \ {t}
  /\ UNCHANGED <<stage, topoVars, fkVars, insertVars, runVars>>
  /\ UNCHANGED <<contexts, batchRows, count, fieldCount, genBatchSize, maxParallel, batchCounts, groupStart, batchCalls, allRows, allIds,
                 genPc, genResult>>

\* if (!options.dryRun && config.databaseUrl): the insert loop
ApiStartInsertLoop ==
  /\ stage = "api_generating"
  /\ orderIdx > Len(order)
  /\ mode = "persist"
  /\ stage' = "api_inserting"
  /\ orderIdx' = 1
  /\ UNCHANGED <<topoVars, fkVars, insertVars, aiVars>>
  /\ UNCHANGED <<mode, provider, connection, levelIdx, gen, requested, results, generatedData>>

\* dry run or no database URL: return
ApiReturnsWithoutInsert ==
  /\ stage = "api_generating"
  /\ orderIdx > Len(order)
  /\ mode # "persist"
  /\ stage' = "resolved"
  /\ UNCHANGED <<topoVars, fkVars, insertVars, runVars, aiVars>>

\* await insertData(tableName, generatedData[tableName], databaseUrl, batchSize)
ApiInsertTable ==
  /\ stage = "api_inserting"
  /\ orderIdx <= Len(order)
  /\ callPc \in {"idle", "returned"}
  /\ IF order[orderIdx] \in DOMAIN generatedData
     THEN InsertDataEntry(order[orderIdx], RowKeys(order[orderIdx]), DefaultBatchSize)
     ELSE UNCHANGED insertVars
  /\ orderIdx' = orderIdx + 1
  /\ UNCHANGED <<stage, topoVars, fkVars, aiVars>>
  /\ UNCHANGED <<mode, provider, connection, levelIdx, gen, requested, results, generatedData>>

\* the insert loop is over: return
ApiReturns ==
  /\ stage = "api_inserting"
  /\ orderIdx > Len(order)
  /\ callPc \in {"idle", "returned"}
  /\ stage' = "resolved"
  /\ UNCHANGED <<topoVars, fkVars, insertVars, runVars, aiVars>>

\* insertData threw: the promise of generate() rejects
ApiRejects ==
  /\ stage = "api_inserting"
  /\ callPc = "thrown"
  /\ stage' = "rejected"
  /\ UNCHANGED <<topoVars, fkVars, insertVars, runVars, aiVars>>

NextGenerate ==
  \/ ApiSort \/ ApiCallGenerate \/ ApiRecord
  \/ UnsupportedProvider \/ StartSingleShot \/ StartBatched
  \/ \E b \in DOMAIN batchCalls : AttemptSucceeds(b) \/ AttemptFails(b) \/ BatchRetried(b) \/ BatchRetryFails(b)
  \/ \E b \in DOMAIN batchCalls : SiblingRetryFails(b)
  \/ SingleShotFails \/ SingleShotResolved \/ GroupResolved
  \/ \E t \in orphaned : OrphanSettles(t)
  \/ ApiStartInsertLoop \/ ApiReturnsWithoutInsert \/ ApiInsertTable \/ ApiReturns \/ ApiRejects
  \/ InsertDataSteps

SpecGenerate == InitGenerate /\ [][NextGenerate]_vars

PrimaryRaised ==
  \/ genPc = "returned" /\ provider # "openai"
  \/ \E b \in DOMAIN batchCalls : batchCalls[b].state = "rejected"

\* C12: whenever the primary generation of a table raises (single shot or batched, after its
\* retries), generateDataForTable returns the fallback result for the entire requested count:
\* exactly count fallback rows; a returned table never has zero rows.
C12_TableLevelFallback ==
  /\ PrimaryRaised => (genPc = "returned" /\ genResult = [source |-> "faker", rows |-> count, ids |-> count])
  /\ genPc = "returned" => genResult.rows > 0

\* a batch of a later group failed twice after an earlier group had delivered rows
C12_Witness ==
  /\ genPc = "returned"
  /\ genResult.source = "faker"
  /\ allRows > 0
  /\ \E b \in DOMAIN batchCalls : batchCalls[b].state = "rejected" /\ batchCalls[b].call = 2

\* C20: in batched generation a batch whose generateBatch call fails is called again exactly
\* once; the result of a successful second call is used for the batch; a failed second call
\* ends the table-level generation with its error (the caller falls back); no batch is called
\* a third time.
C20_BatchRetryOnce ==
  /\ [](\A b \in DOMAIN batchCalls :
          /\ batchCalls[b].call <= 2
          /\ batchCalls[b].state = "rejected" => (genPc = "returned" /\ genResult.source = "faker")
          /\ (genPc = "batched" /\ CallFailed(batchCalls[b])) =>
               (ENABLED BatchRetried(b) <=> batchCalls[b].call = 1))
  /\ [][genPc = "batched" =>
          /\ groupStart' = groupStart =>
               \A b \in DOMAIN batchCalls :
                 batchCalls'[b].call # batchCalls[b].call =>
                   /\ CallFailed(batchCalls[b])
                   /\ batchCalls'[b] = PendingCall(batchCalls[b].size, 2)
          /\ allRows' # allRows =>
               /\ \A b \in DOMAIN batchCalls : batchCalls[b].state = "resolved"
               /\ allRows' = allRows + SumField(batchCalls, DOMAIN batchCalls, "rows")]_vars

\* the second call of a batch succeeded and the table was returned from the batches
C20_Witness ==
  /\ genPc = "returned"
  /\ genResult.source = "ai"
  /\ \E b \in DOMAIN batchCalls : batchCalls[b].call = 2 /\ batchCalls[b].state = "resolved"
  /\ genResult.rows = allRows

\* ---- claims on the whole run, both entry points ----

\* a generation request has been issued
RequestIssued == requested # {} \/ batchCalls # <<>> \/ DOMAIN idMappings # {}

\* C15: when persistence is requested, no generation request is issued before the connection
\* check has succeeded; if the check fails, no request is issued and nothing is persisted.
C15_ConnectionPrecheck ==
  mode = "persist" =>
    /\ RequestIssued => connection = "ok"
    /\ connection = "failed" => (~RequestIssued /\ \A t \in DOMAIN store : store[t] = {})

\* a generation request that reads the mapping is pending
RequestPending ==
  \/ \E t \in DOMAIN gen : gen[t].state = "pending"
  \/ \E b \in DOMAIN batchCalls : batchCalls[b].state = "pending"
  \/ orphaned # {}

\* C11: during a run an entry of idMappings, once written, is never changed or removed (each
\* entry is written once, the set of keys only grows), and no entry is written while a
\* generation request that reads the mapping is still pending.
C11_MappingDiscipline ==
  [][/\ \A t \in DOMAIN idMappings : t \in DOMAIN idMappings' /\ idMappings'[t] = idMappings[t]
     /\ idMappings' # idMappings => ~RequestPending]_vars

\* ---- claims on the dependency graph ----

\* table a has a foreign-key field related to b
HasForeignKey(a, b) == \E j \in DOMAIN tables[a].fields : tables[a].fields[j] = b

\* the tables left with positive in-degree when the queue of topologicalSort is empty
KahnResidual ==
  LET keys == GraphKeys(tables)
      inDegree0 == [t \in DOMAIN graph |-> Len(graph[t].dependencies)]
      k == ProcessQueue(graph, <<>>, SelectSeq(keys, LAMBDA t : inDegree0[t] = 0), inDegree0)
  IN Range(Residual(keys, k.inDegree))

Acyclic == \A t \in Names : ~OnCycle(t)

\* C28: buildDependencyGraph gives table A a dependency on B if and only if some field of A
\* carries a foreign key to B and B is not A; a self-referencing key creates no edge and
\* several keys to the same table create one edge.
C28_GraphEdges ==
  Sorted =>
    \A a \in Names :
      /\ \A b \in 0..Len(tables) : DependsOn(a, b) <=> (b # a /\ HasForeignKey(a, b))
      /\ NoDuplicates(graph[a].dependencies)
      /\ NoDuplicates(graph[a].dependents)
      /\ \A b \in Names : Includes(graph[a].dependents, b) <=> (b # a /\ HasForeignKey(b, a))

\* a table with two keys to one table and a key to itself has that one dependency
C28_Witness ==
  /\ Sorted
  /\ \E a, b \in Names :
       /\ a # b
       /\ tables[a].fields = <<b, b>>
       /\ graph[a].dependencies = <<b>>
       /\ graph[b].dependents = <<a>>
  /\ \E a \in Names : HasForeignKey(a, a) /\ graph[a].dependencies = <<>>

\* C29: a foreign key to a table not among the input tables creates no edge: dependency sets
\* hold input tables only, B is in A's dependencies exactly when A is in B's dependents, and
\* with no cycle among the input tables nothing is reported as a cycle and every table is
\* placed in a level after its dependencies.
C29_UnknownTableTolerated ==
  Sorted =>
    /\ \A a \in Names : Range(graph[a].dependencies) \subseteq Names
    /\ \A a, b \in Names : DependsOn(a, b) <=> Includes(graph[b].dependents, a)
    /\ Acyclic =>
         /\ cycles = <<>>
         /\ stage = "grouped" => \A a, b \in Names : DependsOn(a, b) => LevelOf(b) < LevelOf(a)

\* C30: every table left with positive in-degree lies on a dependency cycle; every sequence
\* in cycles is a non-empty list of tables on a cycle, consecutive tables joined by a
\* dependency edge; cycles is empty when the graph over the input tables is acyclic.
C30_ReportedCyclesAreCycles ==
  Sorted =>
    /\ \A t \in KahnResidual : OnCycle(t)
    /\ \A i \in DOMAIN cycles :
         /\ Len(cycles[i]) > 0
         /\ \A j \in DOMAIN cycles[i] : OnCycle(cycles[i][j])
         /\ \A j \in 1..(Len(cycles[i]) - 1) : DependsOn(cycles[i][j], cycles[i][j + 1])
    /\ Acyclic => cycles = <<>>

\* ---- claims on batch sizing and splitting ----

\* generateWithOpenAI has computed the batch size of the table
SizeComputed == genPc \in {"single", "batched"}

RECURSIVE SumCounts(_)
SumCounts(s) == IF s = <<>> THEN 0 ELSE Head(s) + SumCounts(Tail(s))

\* C26: a count above the batch size is split into consecutive batches, all of the batch
\* size except the last, which has between 1 and the batch size rows; the sizes sum to the
\* count
C26_BatchSplitting ==
  (genPc = "batched" /\ count > genBatchSize) =>
    /\ Len(batchCounts) >= 2
    /\ \A i \in 1..(Len(batchCounts) - 1) : batchCounts[i] = genBatchSize
    /\ batchCounts[Len(batchCounts)] \in 1..genBatchSize
    /\ SumCounts(batchCounts) = count
    /\ count = 105 /\ genBatchSize = 30 => batchCounts = <<30, 30, 30, 15>>

C26_Witness == genPc = "batched" /\ count = 105 /\ batchCounts = <<30, 30, 30, 15>>

\* ---- claims on the dispatch of batches ----

\* the batches whose request (first call or retry) has not come to its end
PendingBatches == {b \in DOMAIN batchCalls : batchCalls[b].state = "pending"}

\* the chunk of batch b: chunks of maxParallel consecutive batches
ChunkOf(b) == (b - 1) \div maxParallel

\* the batches requested by the step
NewlyRequested == {b \in DOMAIN batchCalls' : b \notin DOMAIN batchCalls}

\* C22: within the batched generation of a table never more than the parallelism limit of
\* batch requests are pending; the batches of a chunk are requested in one step, and only
\* when every batch of the chunk before has resolved
C22_BoundedConcurrency ==
  /\ [](genPc = "batched" =>
          /\ Cardinality(PendingBatches) <= maxParallel
          /\ \A b, c \in DOMAIN batchCalls : ChunkOf(b) = ChunkOf(c)
          /\ \A b \in 1..Len(batchCounts) :
                (\E c \in DOMAIN batchCalls : ChunkOf(b) = ChunkOf(c)) => b \in DOMAIN batchCalls)
  /\ [][(genPc' = "batched" /\ NewlyRequested # {}) =>
          /\ \A b \in DOMAIN batchCalls : batchCalls[b].state = "resolved"
          /\ \A b \in NewlyRequested : batchCalls'[b].state = "pending"
          /\ \A b \in DOMAIN batchCalls, c \in NewlyRequested : ChunkOf(c) = ChunkOf(b) + 1]_vars

\* the second chunk is pending as a whole, at the limit
C22_Witness ==
  /\ genPc = "batched" /\ groupStart > 1
  /\ Cardinality(PendingBatches) = maxParallel
  /\ Len(batchCounts) > maxParallel

\* ---- claims on the batches of a failed chunk ----

\* the call of batch b has come to its own end: a result, or its retry has thrown
Settled(b) == b \in DOMAIN batchCalls /\ batchCalls[b].state \in {"resolved", "rejected"}

\* generateWithOpenAI has rejected because a batch failed after its retry
ChunkFailed == genPc = "returned" /\ batchCounts # <<>> /\ genResult.source = "faker"

\* C21: when a batch of a chunk fails after its retry, the other batches of the chunk are not
\* cancelled: the failing step leaves their calls as they are, a call ends as rejected only
\* after its own retry has used up its attempts, and every batch that was still pending goes
\* on to its own end
C21_SiblingsSurvive ==
  /\ [][(genPc = "batched" /\ ChunkFailed') =>
          \E b \in DOMAIN batchCalls :
            /\ CallFailed(batchCalls[b]) /\ batchCalls[b].call = 2
            /\ \A c \in DOMAIN batchCalls \ {b} : batchCalls'[c] = batchCalls[c]]_vars
  /\ [](batchCounts # <<>> =>
          \A b \in DOMAIN batchCalls :
            batchCalls[b].state = "rejected" =>
              (batchCalls[b].attempt = DefaultMaxRetries /\ batchCalls[b].call = 2))
  /\ [][ChunkFailed => (DOMAIN batchCalls' = DOMAIN batchCalls /\ genResult' = genResult)]_vars
  /\ \A b \in 1..MaxGenBatches : (ChunkFailed /\ b \in PendingBatches) ~> Settled(b)

\* after the failure of a batch one sibling has resolved and another has failed after its retry
C21_Witness ==
  /\ ChunkFailed
  /\ \E b, c, e \in DOMAIN batchCalls :
        /\ b # c /\ batchCalls[b].state = "rejected" /\ batchCalls[c].state = "rejected"
        /\ batchCalls[e].state = "resolved" /\ batchCalls[e].call = 2

\* ---- claims on an empty response ----

\* the step is an attempt of batch b that got an empty array
EmptyResponseStep(b) ==
  /\ b \in DOMAIN batchCalls /\ b \in DOMAIN batchCalls'
  /\ batchCalls[b].state = "pending"
  /\ batchCalls'[b] # batchCalls[b]
  /\ batchCalls'[b].lastError = "zeroRows"

\* C24: a response with zero rows is never returned as a result; the attempt counts as a
\* failed attempt of the call, the call that has used its attempts throws, and a thrown call
\* is retried or leads to the fallback whatever its error was
C24_EmptyResultIsFailure ==
  /\ [](/\ \A b \in DOMAIN batchCalls : batchCalls[b].state = "resolved" => batchCalls[b].ids > 0
        /\ (genPc = "returned" /\ genResult.source = "ai") => (genResult.ids > 0 /\ genResult.rows > 0))
  /\ [][\A b \in 1..MaxGenBatches :
          EmptyResponseStep(b) =>
            /\ batchCalls'[b].rows = 0 /\ batchCalls'[b].call = batchCalls[b].call
            /\ \/ batchCalls[b].attempt < DefaultMaxRetries
                    /\ batchCalls'[b].state = "pending"
                    /\ batchCalls'[b].attempt = batchCalls[b].attempt + 1
               \/ batchCalls[b].attempt = DefaultMaxRetries
                    /\ batchCalls'[b].state = "thrown"
            /\ genResult' = genResult]_vars
  /\ [](\A b \in DOMAIN batchCalls :
          /\ (genPc = "single" /\ batchCalls[b].state = "thrown") => ENABLED SingleShotFails
          /\ (genPc = "batched" /\ batchCalls[b].state = "thrown" /\ batchCalls[b].call = 1)
                => ENABLED BatchRetried(b)
          /\ (genPc = "batched" /\ batchCalls[b].state = "thrown" /\ batchCalls[b].call = 2)
                => ENABLED BatchRetryFails(b)
          /\ batchCalls[b].state = "rejected"
                => (genPc = "returned" /\ genResult = [source |-> "faker", rows |-> count, ids |-> count]))

\* every attempt of the only call got an empty array, and the table has the fallback rows
C24_Witness ==
  /\ genPc = "returned" /\ batchCounts = <<>> /\ batchCalls # <<>>
  /\ batchCalls[1].state = "rejected" /\ batchCalls[1].lastError = "zeroRows"
  /\ genResult.source = "faker"

\* ---- claims on the generation of a level ----

\* C23: when a level is generated at once, every table of the level has exactly one
\* generation under way, all started together, and no request of a table asks for more rows
\* than the batch size of the table
C23_LevelBatchesWithinTable ==
  stage = "level_pending" =>
    /\ DOMAIN gen = DOMAIN contexts
    /\ \A t \in DOMAIN gen :
         /\ gen[t].state \in {"pending", "done"}
         /\ gen[t].state = "pending" => gen[t].size <= getOptimalBatchSize(contexts[t].fieldCount)

\* ---- claims on the identifiers of a result ----

\* the identifiers the rows rs stand for, by the identifier fields of the table
ExpectedIds(rs, idf) ==
  IF Len(idf) = 0 THEN [i \in DOMAIN rs |-> i]
  ELSE IF Len(idf) = 1 THEN [i \in DOMAIN rs |-> rs[i][idf[1]]]
  ELSE [i \in DOMAIN rs |-> CompositeId(rs[i], idf)]

\* C27: the identifiers of every result are the projection of the one identifier field over
\* its rows, one mapping object per row for a composite identifier, and 1..n for the n rows
\* of a table without identifier field; for both generators and for several batches
C27_IdentifierExtraction ==
  (stage = "extract_ids" /\ genPc = "returned") =>
     genResult.ids = ExpectedIds(genResult.rows, tableSchema.idFields)

\* ---- claims on the end of leveling ----

\* the tables of the levels before level i
PlacedBefore(i) == UNION {Range(levels[j]) : j \in 1..(i - 1)}

\* the unplaced tables whose dependencies are all in S
ReadyAfter(S) == {t \in Names \ S : \A d \in 0..Len(tables) : DependsOn(t, d) => d \in S}

\* C31: groupTablesByLevel returns after at most one iteration per table (every iteration
\* adds a level); a level holds the tables whose dependencies are all placed, and when
\* there is none while tables remain, the remaining tables form the final level; no level
\* is empty
C31_LevelingTerminates ==
  stage = "grouped" =>
    /\ Len(levels) <= Len(tables)
    /\ \A i \in DOMAIN levels : levels[i] # <<>>
    /\ \A i \in DOMAIN levels :
         IF ReadyAfter(PlacedBefore(i)) # {}
         THEN Range(levels[i]) = ReadyAfter(PlacedBefore(i))
         ELSE Range(levels[i]) = Names \ PlacedBefore(i) /\ i = Len(levels)
    /\ PlacedBefore(Len(levels) + 1) = Names

\* a level of ready tables followed by a final level of two tables that never became ready
C31_Witness ==
  /\ stage = "grouped"
  /\ Len(levels) = 2
  /\ ReadyAfter(PlacedBefore(2)) = {}
  /\ Len(levels[2]) = 2

\* ---- claims on the order against the levels ----

\* C37: for an input without cycle, order lists the tables in non-decreasing level index
C37_OrderFollowsLevels ==
  (stage = "grouped" /\ Acyclic) =>
     \A i, j \in DOMAIN order : i < j => LevelOf(order[i]) <= LevelOf(order[j])

\* an input without cycle whose input sequence is not in level order: a table stands before
\* a table of a lower level in the input, and after it in order
C37_Witness ==
  /\ stage = "grouped" /\ Acyclic
  /\ \E a, b \in Names :
        /\ a < b /\ LevelOf(a) > LevelOf(b) /\ LevelOf(b) >= 1
        /\ IndexOf(order, b) < IndexOf(order, a)

\* ---- claims on the protocol of insertData ----
Finished == callPc \in {"returned", "thrown"}
SuccessPath == callPc = "returned" /\ Len(insertRows) > 0 /\ FaultFree(statements)
InsertsOf(stmts) == SelectSeq(stmts, LAMBDA s : s.stmt = "INSERT")

\* C34: on the success path of a call with rows the statements are BEGIN, one INSERT per
\* batch, COMMIT; the batches are the consecutive slices of batchSize rows (the last one
\* may be shorter) and put together give the rows in input order; an INSERT is sent only
\* when every earlier one of the call is settled, after BEGIN and never after COMMIT
C34_PersistProtocol ==
  /\ \A i \in DOMAIN statements : statements[i].stmt = "INSERT" =>
       /\ statements[1] = Stmt("BEGIN", TRUE)
       /\ \A j \in 1..(i - 1) : statements[j].stmt \in {"BEGIN", "INSERT"}
       /\ \A j \in 2..(i - 1) : statements[j].stmt = "INSERT"
  /\ callPc = "batch" => batchIdx = Len(InsertsOf(statements)) + 1
  /\ SuccessPath =>
       LET n == Len(batches)
       IN /\ Len(statements) = n + 2
          /\ statements[1] = Stmt("BEGIN", TRUE)
          /\ statements[n + 2] = Stmt("COMMIT", TRUE)
          /\ \A i \in 1..n : /\ statements[i + 1].stmt = "INSERT"
                             /\ statements[i + 1].requested = Len(batches[i])
                             /\ Len(batches[i]) \in 1..batchSize
          /\ \A i \in 1..(n - 1) : Len(batches[i]) = batchSize
          /\ Flatten(batches) = insertRows

C34_Witness ==
  /\ SuccessPath
  /\ Len(batches) >= 2
  /\ Len(batches[Len(batches)]) < batchSize

\* C40: a call that has checked out a connection releases it once, as its last step and
\* after a COMMIT or ROLLBACK that follows every BEGIN, whatever failed (a batch, BEGIN,
\* COMMIT, ROLLBACK itself); statements go only to a checked-out client; a call on an
\* empty row set, and one whose checkout fails, holds no connection and sends nothing
C40_AlwaysClosed ==
  /\ client.checkouts \in {0, 1} /\ client.releases <= client.checkouts
  /\ Finished => client.releases = client.checkouts
  /\ client.releases = 1 =>
       /\ Finished
       /\ LastStmt(statements) \in {"COMMIT", "ROLLBACK"}
       /\ txState = "none" /\ txRows = {}
       /\ \A i \in DOMAIN statements : statements[i].stmt = "BEGIN" =>
            \E j \in (i + 1)..Len(statements) : statements[j].stmt \in {"COMMIT", "ROLLBACK"}
  /\ client.checkouts = 0 =>
       \A i \in DOMAIN statements : statements[i] = Stmt("CONNECT", FALSE)
  /\ (Finished /\ Len(insertRows) = 0) => (client = NoClient /\ statements = <<>>)
  /\ (callPc = "returned" /\ Len(insertRows) > 0) => client.checkouts = 1

C40_Witness ==
  /\ callPc = "thrown"
  /\ client = [checkouts |-> 1, releases |-> 1]
  /\ \E i \in DOMAIN statements : statements[i] = Stmt("BEGIN", TRUE)
  /\ \E i \in DOMAIN statements : statements[i].stmt = "INSERT" /\ ~statements[i].ok
  /\ \E i \in DOMAIN statements : statements[i] = Stmt("COMMIT", FALSE)
  /\ LastStmt(statements) = "ROLLBACK"

\* ---- claims on the pairing of identifiers and rows ----

\* C35: in every result of a generator the identifier list is as long as the row list
\* and its i-th entry is the identifier of the i-th row (the value of the identifier
\* field, or the mapping of the identifier fields)
C35_IdsMatchRows ==
  (stage = "extract_ids" /\ genPc = "returned") =>
     /\ Len(genResult.ids) = Len(genResult.rows)
     /\ Len(tableSchema.idFields) = 1 =>
          \A i \in DOMAIN genResult.ids :
             genResult.ids[i] = genResult.rows[i][tableSchema.idFields[1]]
     /\ Len(tableSchema.idFields) > 1 =>
          \A i \in DOMAIN genResult.ids :
             genResult.ids[i] = CompositeId(genResult.rows[i], tableSchema.idFields)

\* ---- claims on the requests of a table ----

\* C36: when generateDataForTable has returned for a table, none of the table's
\* generateBatch calls is still running, and none runs while a later table is generated
C36_NoRequestOutlivesTable ==
  /\ (stage = "api_generating" /\ genPc = "returned") =>
        \A b \in DOMAIN batchCalls : batchCalls[b].state \notin {"pending", "thrown"}
  /\ orphaned = {}

\* ---- claims on the start of persistence ----

\* the run has sent something to the store, or holds rows in it
PersistenceBegun ==
  \/ callPc # "idle" \/ calls # <<>> \/ statements # <<>>
  \/ \E t \in DOMAIN store : store[t] # {}

\* the level loop was left through its catch
LevelFailed == stage = "exited" /\ connection # "failed" /\ levelIdx <= Len(levels)

\* C39: the CLI run sends nothing to the store before every level is generated and
\* resolved (every request settled, every table with its resolved rows); a run whose
\* level fails ends with nothing sent and nothing stored
C39_PersistAfterGeneration ==
  /\ PersistenceBegun =>
       /\ mode = "persist"
       /\ stage \in {"inserting", "done", "exited"}
       /\ levelIdx > Len(levels)
       /\ \A t \in DOMAIN gen : gen[t].state = "done"
       /\ \A i \in DOMAIN levels : \A t \in Range(levels[i]) : t \in DOMAIN generatedData
  /\ LevelFailed => ~PersistenceBegun

C39_Witness ==
  /\ LevelFailed
  /\ mode = "persist"
  /\ connection = "ok"
  /\ levelIdx >= 2
  /\ DOMAIN generatedData # {}

\* ---- claims on what resolution reads ----

\* the level's tables taken in the opposite order
Reversed(level) == [i \in DOMAIN level |-> level[Len(level) + 1 - i]]

\* the related tables whose identifier list is there when the i-th table of the level
\* is resolved: those recorded before the level, and the tables of the level done before it
Consulted(level, i) ==
  {u \in Range(TableOf(level[i]).fields) :
     u \in DOMAIN idMappings \/ \E j \in 1..(i - 1) : level[j] = u /\ results[u].source # "none"}

\* C38: when the results of a level are processed, the identifier lists read for a table
\* are those of tables of earlier levels, and processing the level's tables in another
\* order gives the same resolved rows
C38_ReadsEarlierLevelsOnly ==
  (stage = "generating" /\ LevelResolved(CurrentLevel)) =>
     /\ \A i \in DOMAIN CurrentLevel : \A u \in Consulted(CurrentLevel, i) :
          LevelOf(u) > 0 /\ LevelOf(u) < levelIdx
     /\ \A randoms \in [Range(CurrentLevel) -> [1..RunCount -> [1..MaxRunFks -> 0..(RunCount - 1)]]] :
          ProcessResults(Reversed(CurrentLevel), 1, generatedData, idMappings, randoms).generatedData
            = ProcessResults(CurrentLevel, 1, generatedData, idMappings, randoms).generatedData

====
